---- MODULE Spec2Model ----
(***************************************************************************)
(* Model of the zook-api admin backend: express routes (authMiddleware,    *)
(* roleGuard) in front of the controllers, and the tables the controllers  *)
(* read and write through the supabase client.  One action per route; the  *)
(* action runs the middleware chain of the route and then the handler, and *)
(* records the request and its response in the variable last.              *)
(***************************************************************************)
EXTENDS Integers, Sequences, FiniteSets, TLC

VARIABLES
    admins,     \* table admins:    id -> row
    tokens,     \* JWTs issued by login and not yet expired (their payloads)
    countries,  \* table countries: id -> row
    cities,     \* table cities:    id -> row
    stores,     \* table stores:    id -> row
    orders,     \* table orders:    id -> row
    ratings,    \* table ratings:   id -> row
    store_item_categories,  \* table store_item_categories: id -> row
    support_tickets,        \* table support_tickets: id -> row
    now,        \* the clock that new Date() reads
    categories,         \* table categories: id -> row
    payment_options,    \* table payment_options: id -> row
    store_item_photos,  \* table store_item_photos: the set of its rows
    support_messages,   \* table support_messages, the oldest message first
    pending,    \* the requests being served whose store calls are not all done
    last        \* the last request served and the response sent for it

vars == <<admins, tokens, countries, cities, stores, orders, ratings,
          store_item_categories, support_tickets, now,
          categories, payment_options, store_item_photos, support_messages,
          pending, last>>

tables == <<admins, countries, cities, stores, orders, ratings,
            store_item_categories, support_tickets>>

\* the tables of the listings (categories, payment options, photos) and the
\* requests on them that are under way
listings == <<categories, payment_options, store_item_photos, support_messages,
              pending>>

\* what the handlers of one controller leave alone
notAdmins ==
    <<tokens, countries, cities, stores, orders, ratings,
      store_item_categories, support_tickets, now, listings>>
notCountries ==
    <<admins, tokens, cities, stores, orders, ratings,
      store_item_categories, support_tickets, now, listings>>
notCities ==
    <<admins, tokens, countries, stores, orders, ratings,
      store_item_categories, support_tickets, now, listings>>
notStores ==
    <<admins, tokens, countries, cities, orders, ratings,
      store_item_categories, support_tickets, now, listings>>
notOrders ==
    <<admins, tokens, countries, cities, stores, ratings,
      store_item_categories, support_tickets, now, listings>>
notRatings ==
    <<admins, tokens, countries, cities, stores, orders,
      store_item_categories, support_tickets, now, listings>>

-----------------------------------------------------------------------------
(* Values *)

\* SQL NULL / JSON null
NULL == "null"
\* a JavaScript undefined: a field missing from a body, req.admin on a route
\* that never ran authMiddleware
UNDEF == "undefined"
\* a table is a function from the primary keys of its rows to the rows
Has(tbl, id) == id \in DOMAIN tbl
Insert(tbl, id, row) == [x \in DOMAIN tbl \cup {id} |-> IF x = id THEN row ELSE tbl[x]]
Delete(tbl, id) == [x \in DOMAIN tbl \ {id} |-> tbl[x]]

\* JavaScript truthiness of an id-valued field
Truthy(x) == x \notin {NULL, UNDEF}

SUPER_ADMIN == "super_admin"
ADMIN == "admin"
OPERATOR == "operator"
\* finance and support are guarded exactly like operator on every route
\* modelled here, so the model keeps one representative of the three
AdminRole == {SUPER_ADMIN, ADMIN, OPERATOR}

CountryIds == {"A", "B"}
CityIds == {"a1", "a2", "a3", "b1"}
\* the country each city id belongs to (cities.country_id never changes)
CityCountry == [y \in CityIds |-> IF y = "b1" THEN "B" ELSE "A"]

\* number of spare primary keys the store can still hand out per table
MaxNewAdmins == 1
SeedAdminIds == {"adm0", "adm1", "adm2", "adm3"}
NewAdminId(i) == "new" \o ToString(i)
NewAdminIds == {NewAdminId(i) : i \in 1..MaxNewAdmins}
AdminIds == SeedAdminIds \cup NewAdminIds

OrderIds == {"o1"}
MaxNewOrders == 2
NewOrderId(i) == "onew" \o ToString(i)

\* the store_items rows createOrder reads; options is the list of option
\* groups (each the names of its items), extras the list of priced extras
store_items ==
    [i1 |-> [store_id |-> "s1", category_id |-> "ic1", is_active |-> TRUE,
             name |-> "pizza", price |-> 100,
             options |-> {{"small", "large"}},
             extras |-> {[name |-> "cheese", price |-> 10]}],
     i2 |-> [store_id |-> "s1", category_id |-> "ic1", is_active |-> TRUE,
             name |-> "cola", price |-> 50,
             options |-> {}, extras |-> {}]]

\* request without Authorization header
NoToken == [id |-> UNDEF, role |-> UNDEF, country_id |-> UNDEF, city_id |-> UNDEF]
\* req.admin when no middleware set it
NoAdmin == NoToken

-----------------------------------------------------------------------------
(* Middleware *)

Pass(admin) == [status |-> 0, message |-> "", admin |-> admin]
Stop(status, message) == [status |-> status, message |-> message, admin |-> NoAdmin]

authMiddleware(token) ==
    IF token = NoToken
    THEN Stop(401, "Authentication required")
    ELSE Pass(token)

roleGuard(allowedRoles, admin) ==
    IF admin = NoAdmin
    THEN Stop(401, "Authentication required")
    ELSE IF admin.role \notin allowedRoles
         THEN Stop(403, "Insufficient permissions")
         ELSE Pass(admin)

\* a public route: no middleware runs, req.admin stays undefined whatever
\* header the caller sent
PublicRoute(token) == Pass(NoAdmin)

\* router.use(authMiddleware) or authMiddleware in the route, no roleGuard
AuthRoute(token) == authMiddleware(token)

\* authMiddleware followed by roleGuard(allowedRoles)
GuardedRoute(allowedRoles, token) ==
    LET a == authMiddleware(token) IN
    IF a.status # 0 THEN a ELSE roleGuard(allowedRoles, a.admin)

\* what a handler returns: the response and the table as it leaves it
Res(status, message, data, tbl) ==
    [status |-> status, message |-> message, data |-> data, tbl |-> tbl]

\* the outcome of a route: the middleware's refusal, or the handler's result
Outcome(g, h, tbl) ==
    IF g.status # 0 THEN Res(g.status, g.message, NULL, tbl) ELSE h

Last(op, token, id, body, r) ==
    [op |-> op, token |-> token, id |-> id, body |-> body,
     status |-> r.status, message |-> r.message, data |-> r.data]

TokenInputs == tokens \cup {NoToken}

-----------------------------------------------------------------------------
(* Admins: AdminController *)

\* every admin management route is declared with roleGuard([AdminRole.ADMIN])
AdminRouteRoles == {ADMIN}

\* gen_random_uuid(): the next primary key the admins table hands out
FreshAdminIds ==
    {NewAdminId(i) : i \in {j \in 1..MaxNewAdmins :
        /\ NewAdminId(j) \notin DOMAIN admins
        /\ \A k \in 1..(j - 1) : NewAdminId(k) \in DOMAIN admins}}

\* the rows of getAllAdmins' query
getAllAdminsRows(admin, query) ==
    {a \in DOMAIN admins :
        IF admin.role # SUPER_ADMIN
        THEN /\ Truthy(admin.country_id) => admins[a].country_id = admin.country_id
             /\ Truthy(admin.city_id) => admins[a].city_id = admin.city_id
        ELSE /\ Truthy(query.country_id) => admins[a].country_id = query.country_id
             /\ Truthy(query.city_id) => admins[a].city_id = query.city_id}

\* default page 1 and limit 10 hold every row of the model
getAllAdminsHandler(admin, query) ==
    Res(200, "Admins retrieved successfully", getAllAdminsRows(admin, query), admins)

getAllAdmins ==
    \E token \in TokenInputs :
        LET query == [country_id |-> UNDEF, city_id |-> UNDEF]
            g == GuardedRoute(AdminRouteRoles, token)
            r == Outcome(g, getAllAdminsHandler(g.admin, query), admins)
        IN  /\ last' = Last("getAllAdmins", token, UNDEF, query, r)
            /\ UNCHANGED tables
            /\ UNCHANGED <<tokens, now, listings>>

\* the constraints of the admins table: the admin_role enum,
\* super_admin_no_country, the foreign keys onto countries and cities, and
\* fk_city_country (not checked while one of its columns is NULL)
AdminRowValid(row) ==
    /\ row.role \in AdminRole
    /\ row.role = SUPER_ADMIN => (row.country_id = NULL /\ row.city_id = NULL)
    /\ row.country_id # NULL => Has(countries, row.country_id)
    /\ row.city_id # NULL =>
          /\ Has(cities, row.city_id)
          /\ row.country_id # NULL => cities[row.city_id].country_id = row.country_id

\* the fields of AdminCreateDto the model keeps; UNDEF = field not sent
AdminCreateDto(username, role, country_id, city_id) ==
    [username |-> username, role |-> role, country_id |-> country_id, city_id |-> city_id]

NewUsernames == {"n" \o ToString(i) : i \in 1..MaxNewAdmins}

AdminCreateBodies ==
    {AdminCreateDto(u, l[1], l[2], l[3]) :
        u \in NewUsernames,
        l \in {<<ADMIN, "A", UNDEF>>, <<ADMIN, "A", "a1">>, <<ADMIN, "B", "b1">>,
               <<SUPER_ADMIN, "A", UNDEF>>, <<SUPER_ADMIN, UNDEF, UNDEF>>}}
    \cup {AdminCreateDto("u1", ADMIN, "A", UNDEF)}

createAdminHandler(admin, adminData, id) ==
    IF \E a \in DOMAIN admins : admins[a].username = adminData.username
    THEN Res(409, "Username already exists", NULL, admins)
    ELSE IF admin.role # SUPER_ADMIN /\ adminData.country_id # admin.country_id
    THEN Res(403, "Cannot create admin for different country", NULL, admins)
    ELSE IF admin.role # SUPER_ADMIN /\ Truthy(admin.city_id)
            /\ adminData.city_id # admin.city_id
    THEN Res(403, "Cannot create admin for different city", NULL, admins)
    ELSE IF admin.role # SUPER_ADMIN /\ adminData.role = SUPER_ADMIN
    THEN Res(403, "Cannot create super admin", NULL, admins)
    ELSE LET newAdmin ==
                 [role |-> adminData.role,
                  country_id |-> IF adminData.country_id = UNDEF THEN NULL
                                 ELSE adminData.country_id,
                  city_id |-> IF adminData.city_id = UNDEF THEN NULL ELSE adminData.city_id,
                  username |-> adminData.username,
                  is_active |-> TRUE]
         IN  IF ~AdminRowValid(newAdmin)
             THEN Res(500, "Failed to create admin", NULL, admins)
             ELSE Res(201, "Admin created successfully", newAdmin,
                      Insert(admins, id, newAdmin))

createAdmin ==
    \E token \in TokenInputs, adminData \in AdminCreateBodies, id \in FreshAdminIds :
        LET g == GuardedRoute(AdminRouteRoles, token)
            r == Outcome(g, createAdminHandler(g.admin, adminData, id), admins)
        IN  /\ admins' = r.tbl
            /\ last' = Last("createAdmin", token, UNDEF, adminData, r)
            /\ UNCHANGED notAdmins

\* the fields of AdminUpdateDto the model keeps; UNDEF = field not sent
AdminUpdateDto(role, country_id, city_id) ==
    [role |-> role, country_id |-> country_id, city_id |-> city_id]

AdminUpdateBodies ==
    {AdminUpdateDto(OPERATOR, UNDEF, UNDEF),
     AdminUpdateDto(SUPER_ADMIN, NULL, NULL),
     AdminUpdateDto(UNDEF, "B", UNDEF),
     AdminUpdateDto(UNDEF, NULL, UNDEF)}

\* supabase .update(updateData): the fields present overwrite the row
AdminPatch(row, updateData) ==
    [role |-> IF updateData.role = UNDEF THEN row.role ELSE updateData.role,
     country_id |-> IF updateData.country_id = UNDEF THEN row.country_id
                    ELSE updateData.country_id,
     city_id |-> IF updateData.city_id = UNDEF THEN row.city_id ELSE updateData.city_id,
     username |-> row.username,
     is_active |-> row.is_active]

\* updateAdmin whose "Invalid update parameters" test looks at country_id only
updateAdminHandlerNoRoleTest(admin, id, updateData) ==
    IF ~Has(admins, id)
    THEN Res(404, "Admin not found", NULL, admins)
    ELSE LET existingAdmin == admins[id]
         IN  IF admin.role # SUPER_ADMIN /\ existingAdmin.role = SUPER_ADMIN
             THEN Res(403, "Cannot modify super admin", NULL, admins)
             ELSE IF admin.role # SUPER_ADMIN /\ existingAdmin.country_id # admin.country_id
             THEN Res(403, "Cannot modify admin from different country", NULL, admins)
             ELSE IF admin.role # SUPER_ADMIN /\ Truthy(admin.city_id)
                     /\ existingAdmin.city_id # admin.city_id
             THEN Res(403, "Cannot modify admin from different city", NULL, admins)
             ELSE IF admin.role # SUPER_ADMIN /\ Truthy(updateData.country_id)
             THEN Res(403, "Invalid update parameters", NULL, admins)
             ELSE LET updatedAdmin == AdminPatch(existingAdmin, updateData)
                  IN  IF ~AdminRowValid(updatedAdmin)
                      THEN Res(500, "Failed to update admin", NULL, admins)
                      ELSE Res(200, "Admin updated successfully", updatedAdmin,
                               [admins EXCEPT ![id] = updatedAdmin])

updateAdminHandler(admin, id, updateData) ==
    IF ~Has(admins, id)
    THEN Res(404, "Admin not found", NULL, admins)
    ELSE LET existingAdmin == admins[id]
         IN  IF admin.role # SUPER_ADMIN /\ existingAdmin.role = SUPER_ADMIN
             THEN Res(403, "Cannot modify super admin", NULL, admins)
             ELSE IF admin.role # SUPER_ADMIN /\ existingAdmin.country_id # admin.country_id
             THEN Res(403, "Cannot modify admin from different country", NULL, admins)
             ELSE IF admin.role # SUPER_ADMIN /\ Truthy(admin.city_id)
                     /\ existingAdmin.city_id # admin.city_id
             THEN Res(403, "Cannot modify admin from different city", NULL, admins)
             ELSE IF admin.role # SUPER_ADMIN
                     /\ (Truthy(updateData.country_id) \/ updateData.role = SUPER_ADMIN)
             THEN Res(403, "Invalid update parameters", NULL, admins)
             ELSE LET updatedAdmin == AdminPatch(existingAdmin, updateData)
                  IN  IF ~AdminRowValid(updatedAdmin)
                      THEN Res(500, "Failed to update admin", NULL, admins)
                      ELSE Res(200, "Admin updated successfully", updatedAdmin,
                               [admins EXCEPT ![id] = updatedAdmin])

updateAdmin ==
    \E token \in TokenInputs, id \in AdminIds, updateData \in AdminUpdateBodies :
        LET g == GuardedRoute(AdminRouteRoles, token)
            r == Outcome(g, updateAdminHandler(g.admin, id, updateData), admins)
        IN  /\ admins' = r.tbl
            /\ last' = Last("updateAdmin", token, id, updateData, r)
            /\ UNCHANGED notAdmins

\* deleteAdmin without the "Prevent self-deletion" test
deleteAdminHandlerNoSelfTest(admin, id) ==
    IF ~Has(admins, id)
    THEN Res(404, "Admin not found", NULL, admins)
    ELSE LET adminToDelete == admins[id]
         IN  IF admin.role # SUPER_ADMIN /\ adminToDelete.role = SUPER_ADMIN
             THEN Res(403, "Cannot delete super admin", NULL, admins)
             ELSE IF admin.role # SUPER_ADMIN /\ adminToDelete.country_id # admin.country_id
             THEN Res(403, "Cannot delete admin from different country", NULL, admins)
             ELSE IF admin.role # SUPER_ADMIN /\ Truthy(admin.city_id)
                     /\ adminToDelete.city_id # admin.city_id
             THEN Res(403, "Cannot delete admin from different city", NULL, admins)
             ELSE Res(200, "Admin deleted successfully", NULL, Delete(admins, id))

deleteAdminHandler(admin, id) ==
    IF ~Has(admins, id)
    THEN Res(404, "Admin not found", NULL, admins)
    ELSE LET adminToDelete == admins[id]
         IN  IF admin.role # SUPER_ADMIN /\ adminToDelete.role = SUPER_ADMIN
             THEN Res(403, "Cannot delete super admin", NULL, admins)
             ELSE IF admin.role # SUPER_ADMIN /\ adminToDelete.country_id # admin.country_id
             THEN Res(403, "Cannot delete admin from different country", NULL, admins)
             ELSE IF admin.role # SUPER_ADMIN /\ Truthy(admin.city_id)
                     /\ adminToDelete.city_id # admin.city_id
             THEN Res(403, "Cannot delete admin from different city", NULL, admins)
             ELSE IF id = admin.id
             THEN Res(400, "Cannot delete your own account", NULL, admins)
             ELSE Res(200, "Admin deleted successfully", NULL, Delete(admins, id))

\* ratings.fk_moderator is ON DELETE SET NULL
RatingsWithoutModerator(id) ==
    [x \in DOMAIN ratings |->
        IF ratings[x].moderated_by = id
        THEN [ratings[x] EXCEPT !.moderated_by = NULL]
        ELSE ratings[x]]

deleteAdmin ==
    \E token \in TokenInputs, id \in AdminIds :
        LET g == GuardedRoute(AdminRouteRoles, token)
            r == Outcome(g, deleteAdminHandler(g.admin, id), admins)
        IN  /\ admins' = r.tbl
            /\ ratings' = IF r.status = 200 THEN RatingsWithoutModerator(id) ELSE ratings
            /\ last' = Last("deleteAdmin", token, id, UNDEF, r)
            /\ UNCHANGED <<tokens, countries, cities, stores, orders,
                         store_item_categories, support_tickets, now, listings>>

-----------------------------------------------------------------------------
(* Stores: StoreController *)

SeedStoreIds == {"s1", "s2"}
MaxNewStores == 1
NewStoreId(i) == "snew" \o ToString(i)
NewStoreIds == {NewStoreId(i) : i \in 1..MaxNewStores}
StoreIds == SeedStoreIds \cup NewStoreIds

\* gen_random_uuid(): the next primary key the stores table hands out
FreshStoreIds ==
    {NewStoreId(i) : i \in {j \in 1..MaxNewStores :
        /\ NewStoreId(j) \notin DOMAIN stores
        /\ \A k \in 1..(j - 1) : NewStoreId(k) \in DOMAIN stores}}

\* the categories a store request names; "cat0" is no row
CategoryIds == {"cat1", "cat2"}

\* the query parameters of a list request the model keeps
StoreFilters(country_id, city_id) == [country_id |-> country_id, city_id |-> city_id]

\* the rows of getStores' query: the "location-based access control" block
getStoresRows(admin, query) ==
    {s \in DOMAIN stores :
        IF admin.role # SUPER_ADMIN
        THEN Truthy(admin.country_id) =>
                /\ stores[s].country_id = admin.country_id
                /\ Truthy(admin.city_id) => stores[s].city_id = admin.city_id
        ELSE Truthy(query.country_id) =>
                /\ stores[s].country_id = query.country_id
                /\ Truthy(query.city_id) => stores[s].city_id = query.city_id}

\* default page 1 and limit 10 hold every row of the model
getStoresHandler(admin, query) ==
    Res(200, "Stores retrieved successfully", getStoresRows(admin, query), stores)

getStores ==
    \E token \in TokenInputs, query \in {StoreFilters(UNDEF, UNDEF), StoreFilters("A", "a1")} :
        LET g == PublicRoute(token)
            r == Outcome(g, getStoresHandler(g.admin, query), stores)
        IN  /\ last' = Last("getStores", token, UNDEF, query, r)
            /\ UNCHANGED tables
            /\ UNCHANGED <<tokens, now, listings>>

getStoreByIdHandler(id) ==
    IF ~Has(stores, id)
    THEN Res(404, "Store not found", NULL, stores)
    ELSE Res(200, "Store retrieved successfully", stores[id], stores)

getStoreById ==
    \E token \in TokenInputs, id \in StoreIds :
        LET g == PublicRoute(token)
            r == Outcome(g, getStoreByIdHandler(id), stores)
        IN  /\ last' = Last("getStoreById", token, id, UNDEF, r)
            /\ UNCHANGED tables
            /\ UNCHANGED <<tokens, now, listings>>

\* the fields of StoreCreateDto the model keeps (names are taken to be unique)
StoreCreateDto(country_id, city_id, category_id) ==
    [country_id |-> country_id, city_id |-> city_id, category_id |-> category_id]

StoreCreateBodies ==
    {StoreCreateDto(l[1], l[2], c) :
        l \in {<<"A", UNDEF>>, <<"A", "a1">>, <<"B", "b1">>, <<"A", "b1">>},
        c \in CategoryIds \cup {"cat0"}}

\* the foreign keys of a stores row: countries, (city, country), (category, country)
StoreRowValid(row) ==
    /\ Has(countries, row.country_id)
    /\ row.city_id # NULL =>
          Has(cities, row.city_id) /\ cities[row.city_id].country_id = row.country_id
    /\ categories[row.category_id].country_id = row.country_id

createStoreHandler(data, id) ==
    IF ~(data.category_id \in CategoryIds /\ categories[data.category_id].is_active)
    THEN Res(400, "Invalid category ID", NULL, stores)
    ELSE LET store == [country_id |-> data.country_id,
                       city_id |-> IF data.city_id = UNDEF THEN NULL ELSE data.city_id,
                       category_id |-> data.category_id,
                       is_busy |-> FALSE, is_active |-> FALSE]
         IN  IF ~StoreRowValid(store)
             THEN Res(500, "Failed to create store", NULL, stores)
             ELSE Res(201, "Store created successfully", store, Insert(stores, id, store))

StoreAdminRoles == {SUPER_ADMIN, ADMIN}

createStore ==
    \E token \in TokenInputs, data \in StoreCreateBodies, id \in FreshStoreIds :
        LET g == GuardedRoute(StoreAdminRoles, token)
            r == Outcome(g, createStoreHandler(data, id), stores)
        IN  /\ stores' = r.tbl
            /\ last' = Last("createStore", token, UNDEF, data, r)
            /\ UNCHANGED notStores

\* the fields of StoreUpdateDto the model keeps; a category_id not sent is
\* UNDEF, a boolean field is <<>> when not sent and <<b>> when sent as b
StoreUpdateDto(category_id, is_active, is_busy) ==
    [category_id |-> category_id, is_active |-> is_active, is_busy |-> is_busy]

StoreUpdateBodies ==
    {StoreUpdateDto(UNDEF, <<>>, <<>>), StoreUpdateDto(UNDEF, <<FALSE>>, <<>>),
     StoreUpdateDto(UNDEF, <<>>, <<TRUE>>), StoreUpdateDto("cat2", <<>>, <<>>)}

StorePatch(row, data) ==
    [country_id |-> row.country_id,
     city_id |-> row.city_id,
     category_id |-> IF data.category_id = UNDEF THEN row.category_id ELSE data.category_id,
     is_busy |-> IF Len(data.is_busy) = 0 THEN row.is_busy ELSE data.is_busy[1],
     is_active |-> IF Len(data.is_active) = 0 THEN row.is_active ELSE data.is_active[1]]

updateStoreHandler(id, data) ==
    IF ~Has(stores, id)
    THEN Res(404, "Store not found", NULL, stores)
    ELSE IF /\ Truthy(data.category_id)
            /\ ~(data.category_id \in CategoryIds /\ categories[data.category_id].is_active)
    THEN Res(400, "Invalid category ID", NULL, stores)
    ELSE LET updatedStore == StorePatch(stores[id], data)
         IN  IF ~StoreRowValid(updatedStore)
             THEN Res(500, "Failed to update store", NULL, stores)
             ELSE Res(200, "Store updated successfully", updatedStore,
                      [stores EXCEPT ![id] = updatedStore])

updateStore ==
    \E token \in TokenInputs, id \in StoreIds, data \in StoreUpdateBodies :
        LET g == GuardedRoute(StoreAdminRoles, token)
            r == Outcome(g, updateStoreHandler(id, data), stores)
        IN  /\ stores' = r.tbl
            /\ last' = Last("updateStore", token, id, data, r)
            /\ UNCHANGED notStores

\* orders.store_id references stores(id) without ON DELETE: a store that has
\* orders cannot be deleted
deleteStoreHandler(id) ==
    IF ~Has(stores, id)
    THEN Res(404, "Store not found", NULL, stores)
    ELSE IF \/ \E o \in DOMAIN orders : orders[o].store_id = id
            \/ \E i \in DOMAIN store_items : store_items[i].store_id = id
    THEN Res(500, "Failed to delete store", NULL, stores)
    ELSE Res(200, "Store deleted successfully", NULL, Delete(stores, id))

deleteStore ==
    \E token \in TokenInputs, id \in StoreIds :
        LET g == GuardedRoute(StoreAdminRoles, token)
            r == Outcome(g, deleteStoreHandler(id), stores)
        IN  /\ stores' = r.tbl
            \* store_item_categories_fk_store is ON DELETE CASCADE
            /\ store_item_categories' =
                  IF r.status = 200
                  THEN [c \in {x \in DOMAIN store_item_categories :
                                  store_item_categories[x].store_id # id} |->
                            store_item_categories[c]]
                  ELSE store_item_categories
            /\ last' = Last("deleteStore", token, id, UNDEF, r)
            /\ UNCHANGED <<admins, tokens, countries, cities, orders, ratings,
                           support_tickets, now, listings>>

toggleBusyStatusHandler(id) ==
    IF ~Has(stores, id)
    THEN Res(404, "Store not found", NULL, stores)
    ELSE LET updatedStore == [stores[id] EXCEPT !.is_busy = ~stores[id].is_busy]
         IN  Res(200, IF updatedStore.is_busy THEN "Store is now busy" ELSE "Store is now available",
                 NULL, [stores EXCEPT ![id] = updatedStore])

toggleBusyStatus ==
    \E token \in TokenInputs, id \in StoreIds :
        LET g == GuardedRoute({SUPER_ADMIN, ADMIN, OPERATOR}, token)
            r == Outcome(g, toggleBusyStatusHandler(id), stores)
        IN  /\ stores' = r.tbl
            /\ last' = Last("toggleBusyStatus", token, id, UNDEF, r)
            /\ UNCHANGED notStores

toggleActiveStatusHandler(id) ==
    IF ~Has(stores, id)
    THEN Res(404, "Store not found", NULL, stores)
    ELSE LET updatedStore == [stores[id] EXCEPT !.is_active = ~stores[id].is_active]
         IN  Res(200, IF updatedStore.is_active THEN "Store is now active" ELSE "Store is now inactive",
                 NULL, [stores EXCEPT ![id] = updatedStore])

toggleActiveStatus ==
    \E token \in TokenInputs, id \in StoreIds :
        LET g == GuardedRoute(StoreAdminRoles, token)
            r == Outcome(g, toggleActiveStatusHandler(id), stores)
        IN  /\ stores' = r.tbl
            /\ last' = Last("toggleActiveStatus", token, id, UNDEF, r)
            /\ UNCHANGED notStores

-----------------------------------------------------------------------------
(* Orders: src/src/controllers/order.controller.ts *)

OrderStatus == {"pending", "preparing", "done_preparing", "on_way", "delivered", "cancelled"}

\* the payment_status enum of the orders table
DbPaymentStatus == {"paid", "not_paid"}
\* the PaymentStatus type of the application
PaymentStatus == {"not_paid", "paid", "failed", "refunded"}

\* validTransitions with delivered: ['preparing']
validTransitionsReopenDelivered ==
    [s \in OrderStatus |->
        CASE s = "pending" -> {"preparing", "cancelled"}
          [] s = "preparing" -> {"done_preparing", "cancelled"}
          [] s = "done_preparing" -> {"on_way", "cancelled"}
          [] s = "on_way" -> {"delivered", "cancelled"}
          [] s = "delivered" -> {"preparing"}
          [] s = "cancelled" -> {}]

validTransitions ==
    [s \in OrderStatus |->
        CASE s = "pending" -> {"preparing", "cancelled"}
          [] s = "preparing" -> {"done_preparing", "cancelled"}
          [] s = "done_preparing" -> {"on_way", "cancelled"}
          [] s = "on_way" -> {"delivered", "cancelled"}
          [] s = "delivered" -> {}
          [] s = "cancelled" -> {}]

\* the "Check access rights" block shared by the order handlers; 0 = allowed
OrderAccess(admin, store) ==
    IF admin.role # SUPER_ADMIN
    THEN IF Truthy(admin.country_id) /\ store.country_id # admin.country_id
         THEN 1
         ELSE IF Truthy(admin.city_id) /\ store.city_id # admin.city_id
              THEN 2
              ELSE 0
    ELSE 0

OrderRoles == {SUPER_ADMIN, ADMIN, OPERATOR}

\* the rows of getOrders' query; the filter on the embedded stores row is
\* taken to drop the orders whose store does not match
getOrdersRows(admin) ==
    {o \in DOMAIN orders :
        admin.role # SUPER_ADMIN =>
            (Truthy(admin.country_id) =>
                /\ stores[orders[o].store_id].country_id = admin.country_id
                /\ Truthy(admin.city_id) =>
                      stores[orders[o].store_id].city_id = admin.city_id)}

\* page and limit of req.query: <<>> when not sent, <<n>> for the string of
\* the decimal digits of n (the values of req.query are strings)
OrderQueryParams ==
    [page : {<<>>, <<1>>, <<2>>, <<3>>}, limit : {<<>>, <<1>>, <<2>>}]

RECURSIVE Shift(_)
\* 10 to the number of decimal digits of n
Shift(n) == IF n < 10 THEN 10 ELSE 10 * Shift(n \div 10)

\* from = (page - 1) * limit: - and * convert both operands to numbers
RangeFrom(q) ==
    LET page == IF Len(q.page) = 0 THEN 1 ELSE q.page[1]
        limit == IF Len(q.limit) = 0 THEN 10 ELSE q.limit[1]
    IN  (page - 1) * limit

\* to = from + limit - 1: + on a number and a string concatenates the
\* digits, and - converts the result back to a number
RangeTo(q) ==
    IF Len(q.limit) = 0
    THEN RangeFrom(q) + 10 - 1
    ELSE (RangeFrom(q) * Shift(q.limit[1]) + q.limit[1]) - 1

\* .order('created_at', { ascending: false }): the newest order first; the
\* orders created by createOrder are newer than the seeded one
OrdersNewestFirst(ids) ==
    LET all == [k \in 1..MaxNewOrders |-> NewOrderId(MaxNewOrders + 1 - k)]
                   \o <<"o1">>
    IN  SelectSeq(all, LAMBDA o : o \in ids)

\* the page of a query with { count: 'exact' } and .range(from, to): the
\* store refuses an offset beyond the count (range not satisfiable)
getOrdersHandler(admin, q) ==
    LET rows == OrdersNewestFirst(getOrdersRows(admin))
        count == Len(rows)
        limit == IF Len(q.limit) = 0 THEN 10 ELSE q.limit[1]
        from == RangeFrom(q)
        to == RangeTo(q)
    IN  IF from > count
        THEN Res(500, "Failed to retrieve orders", NULL, orders)
        ELSE Res(200, "Orders retrieved successfully",
                 [orders |-> SubSeq(rows, from + 1, IF to + 1 < count THEN to + 1 ELSE count),
                  total |-> count,
                  totalPages |-> (count + limit - 1) \div limit],
                 orders)

getOrders ==
    \E token \in TokenInputs, q \in OrderQueryParams :
        LET g == PublicRoute(token)
            r == Outcome(g, getOrdersHandler(g.admin, q), orders)
        IN  /\ last' = Last("getOrders", token, UNDEF, q, r)
            /\ UNCHANGED tables
            /\ UNCHANGED <<tokens, now, listings>>

updateOrderStatusHandler(admin, id, status) ==
    IF ~Has(orders, id)
    THEN Res(404, "Order not found", NULL, orders)
    ELSE LET existingOrder == orders[id]
             acc == OrderAccess(admin, stores[existingOrder.store_id])
         IN  IF acc = 1
             THEN Res(403, "Cannot modify order from different country", NULL, orders)
             ELSE IF acc = 2
             THEN Res(403, "Cannot modify order from different city", NULL, orders)
             ELSE IF status \notin validTransitions[existingOrder.order_status]
             THEN Res(400, "Invalid status transition", NULL, orders)
             ELSE LET order == [existingOrder EXCEPT !.order_status = status]
                  IN  Res(200, "Order status updated successfully", order,
                          [orders EXCEPT ![id] = order])

updateOrderStatus ==
    \E token \in TokenInputs, id \in OrderIds, status \in OrderStatus :
        LET g == GuardedRoute(OrderRoles, token)
            r == Outcome(g, updateOrderStatusHandler(g.admin, id, status), orders)
        IN  /\ orders' = r.tbl
            /\ last' = Last("updateOrderStatus", token, id, [status |-> status], r)
            /\ UNCHANGED notOrders

\* payment_options rows the order handlers look up (id -> is_active)
PaymentOptionIds == {"po1", "po2"}
paymentOptionActive == [po \in PaymentOptionIds |-> po = "po1"]

\* the fields of OrderUpdateDto the model keeps; UNDEF = field not sent
OrderUpdateDto(order_status, payment_status, payment_option_id) ==
    [order_status |-> order_status, payment_status |-> payment_status,
     payment_option_id |-> payment_option_id]

\* the bodies tried: one field sent at a time, or none
OrderUpdateBodies ==
    {OrderUpdateDto(st, UNDEF, UNDEF) : st \in OrderStatus \cup {UNDEF}}
    \cup {OrderUpdateDto(UNDEF, "failed", UNDEF)}
    \cup {OrderUpdateDto(UNDEF, UNDEF, po) : po \in PaymentOptionIds}

\* supabase .update(data): the fields present in data overwrite the row;
\* a value outside a column's enum makes the statement fail
OrderPatch(row, data) ==
    [store_id |-> row.store_id,
     order_status |-> IF data.order_status = UNDEF THEN row.order_status ELSE data.order_status,
     payment_status |-> IF data.payment_status = UNDEF THEN row.payment_status ELSE data.payment_status,
     payment_option_id |-> IF data.payment_option_id = UNDEF THEN row.payment_option_id ELSE data.payment_option_id,
     driver_id |-> row.driver_id]

OrderRowValid(row) ==
    /\ row.order_status \in OrderStatus
    /\ row.payment_status \in DbPaymentStatus

updateOrderHandler(admin, id, data) ==
    IF ~Has(orders, id)
    THEN Res(404, "Order not found", NULL, orders)
    ELSE LET existingOrder == orders[id]
             acc == OrderAccess(admin, stores[existingOrder.store_id])
         IN  IF acc = 1
             THEN Res(403, "Cannot modify order from different country", NULL, orders)
             ELSE IF acc = 2
             THEN Res(403, "Cannot modify order from different city", NULL, orders)
             ELSE IF Truthy(data.payment_option_id) /\ ~paymentOptionActive[data.payment_option_id]
             THEN Res(400, "Invalid payment option ID", NULL, orders)
             ELSE LET order == OrderPatch(existingOrder, data)
                  IN  IF ~OrderRowValid(order)
                      THEN Res(500, "Failed to update order", NULL, orders)
                      ELSE Res(200, "Order updated successfully", order,
                               [orders EXCEPT ![id] = order])

updateOrder ==
    \E token \in TokenInputs, id \in OrderIds, data \in OrderUpdateBodies :
        LET g == GuardedRoute(OrderRoles, token)
            r == Outcome(g, updateOrderHandler(g.admin, id, data), orders)
        IN  /\ orders' = r.tbl
            /\ last' = Last("updateOrder", token, id, data, r)
            /\ UNCHANGED notOrders

DriverIds == {"d1"}

assignDriverHandler(admin, id, driver_id) ==
    IF ~Has(orders, id)
    THEN Res(404, "Order not found", NULL, orders)
    ELSE LET existingOrder == orders[id]
             acc == OrderAccess(admin, stores[existingOrder.store_id])
         IN  IF acc = 1
             THEN Res(403, "Cannot modify order from different country", NULL, orders)
             ELSE IF acc = 2
             THEN Res(403, "Cannot modify order from different city", NULL, orders)
             ELSE LET order == [existingOrder EXCEPT !.driver_id = driver_id]
                  IN  Res(200, "Driver assigned successfully", order,
                          [orders EXCEPT ![id] = order])

assignDriver ==
    \E token \in TokenInputs, id \in OrderIds, driver_id \in DriverIds :
        LET g == GuardedRoute(OrderRoles, token)
            r == Outcome(g, assignDriverHandler(g.admin, id, driver_id), orders)
        IN  /\ orders' = r.tbl
            /\ last' = Last("assignDriver", token, id, [driver_id |-> driver_id], r)
            /\ UNCHANGED notOrders

updatePaymentStatusHandler(admin, id, status) ==
    IF ~Has(orders, id)
    THEN Res(404, "Order not found", NULL, orders)
    ELSE LET existingOrder == orders[id]
             acc == OrderAccess(admin, stores[existingOrder.store_id])
         IN  IF acc = 1
             THEN Res(403, "Cannot modify order from different country", NULL, orders)
             ELSE IF acc = 2
             THEN Res(403, "Cannot modify order from different city", NULL, orders)
             ELSE LET order == [existingOrder EXCEPT !.payment_status = status]
                  IN  IF ~OrderRowValid(order)
                      THEN Res(500, "Failed to update payment status", NULL, orders)
                      ELSE Res(200, "Payment status updated successfully", order,
                               [orders EXCEPT ![id] = order])

updatePaymentStatus ==
    \E token \in TokenInputs, id \in OrderIds, status \in {"paid", "not_paid", "refunded"} :
        LET g == GuardedRoute(OrderRoles, token)
            r == Outcome(g, updatePaymentStatusHandler(g.admin, id, status), orders)
        IN  /\ orders' = r.tbl
            /\ last' = Last("updatePaymentStatus", token, id, [status |-> status], r)
            /\ UNCHANGED notOrders

deleteOrderHandler(admin, id) ==
    IF ~Has(orders, id)
    THEN Res(404, "Order not found", NULL, orders)
    ELSE LET order == orders[id]
             acc == OrderAccess(admin, stores[order.store_id])
         IN  IF acc = 1
             THEN Res(403, "Cannot delete order from different country", NULL, orders)
             ELSE IF acc = 2
             THEN Res(403, "Cannot delete order from different city", NULL, orders)
             ELSE IF order.order_status # "pending"
             THEN Res(400, "Can only delete pending orders", NULL, orders)
             ELSE Res(200, "Order deleted successfully", NULL, Delete(orders, id))

deleteOrder ==
    \E token \in TokenInputs, id \in OrderIds :
        LET g == GuardedRoute({SUPER_ADMIN, ADMIN}, token)
            r == Outcome(g, deleteOrderHandler(g.admin, id), orders)
        IN  /\ orders' = r.tbl
            /\ last' = Last("deleteOrder", token, id, UNDEF, r)
            /\ UNCHANGED notOrders

-----------------------------------------------------------------------------
(* Ratings: src/src/controllers/rating.controller.ts *)

RatingIds == {"r1", "r2"}
RatingStatus == {"pending", "approved", "rejected", "reported"}

\* the rows of getRatings' query
getRatingsRows(admin, query) ==
    {x \in DOMAIN ratings :
        IF admin.role # SUPER_ADMIN
        THEN /\ Truthy(admin.country_id) => ratings[x].country_id = admin.country_id
             /\ Truthy(admin.city_id) => ratings[x].city_id = admin.city_id
        ELSE /\ Truthy(query.country_id) => ratings[x].country_id = query.country_id
             /\ Truthy(query.city_id) => ratings[x].city_id = query.city_id}

\* default page 1 and limit 10 hold every row of the model
getRatingsHandler(admin, query) ==
    Res(200, "Ratings retrieved successfully", getRatingsRows(admin, query), ratings)

getRatings ==
    \E token \in TokenInputs :
        LET query == [country_id |-> UNDEF, city_id |-> UNDEF]
            g == PublicRoute(token)
            r == Outcome(g, getRatingsHandler(g.admin, query), ratings)
        IN  /\ last' = Last("getRatings", token, UNDEF, query, r)
            /\ UNCHANGED tables
            /\ UNCHANGED <<tokens, now, listings>>

\* the CHECK constraints of the ratings table the handlers can run into:
\* valid_report_reason
RatingRowValid(row) ==
    /\ row.status \in RatingStatus
    /\ (row.status = "reported") <=> (row.report_reason # NULL)

\* the field of RatingUpdateDto the model keeps: <<>> not sent, <<b>> sent as b
RatingUpdateBodies == {[is_active |-> <<>>], [is_active |-> <<FALSE>>]}

updateRatingHandler(id, updateData) ==
    IF ~Has(ratings, id)
    THEN Res(404, "Rating not found", NULL, ratings)
    ELSE LET existingRating == ratings[id]
         IN  IF \/ ~existingRating.is_active
                \/ existingRating.status = "reported"
                \/ existingRating.status = "rejected"
             THEN Res(400, "Rating cannot be updated", NULL, ratings)
             ELSE LET rating == [existingRating EXCEPT !.is_active =
                                    IF Len(updateData.is_active) = 0 THEN @
                                    ELSE updateData.is_active[1]]
                  IN  Res(200, "Rating updated successfully", rating,
                          [ratings EXCEPT ![id] = rating])

updateRating ==
    \E token \in TokenInputs, id \in RatingIds, updateData \in RatingUpdateBodies :
        LET g == AuthRoute(token)
            r == Outcome(g, updateRatingHandler(id, updateData), ratings)
        IN  /\ ratings' = r.tbl
            /\ last' = Last("updateRating", token, id, updateData, r)
            /\ UNCHANGED notRatings

\* RatingModerationDto: report_reason is UNDEF when not sent
RatingModerationDto(status, report_reason) ==
    [status |-> status, report_reason |-> report_reason]

RatingModerationBodies ==
    {RatingModerationDto("approved", UNDEF), RatingModerationDto("approved", NULL),
     RatingModerationDto("rejected", NULL), RatingModerationDto("reported", "spam"),
     RatingModerationDto("reported", UNDEF)}

\* the "Validate ... access based on location" block of moderateRating and
\* deleteRating; 0 = allowed
RatingAccess(admin, rating) ==
    IF admin.role # SUPER_ADMIN
    THEN IF rating.country_id # admin.country_id
         THEN 1
         ELSE IF Truthy(admin.city_id) /\ rating.city_id # admin.city_id
              THEN 2
              ELSE 0
    ELSE 0

moderateRatingHandler(admin, id, moderationData) ==
    IF ~Has(ratings, id)
    THEN Res(404, "Rating not found", NULL, ratings)
    ELSE LET existingRating == ratings[id]
             acc == RatingAccess(admin, existingRating)
         IN  IF acc = 1
             THEN Res(403, "Cannot moderate rating from different country", NULL, ratings)
             ELSE IF acc = 2
             THEN Res(403, "Cannot moderate rating from different city", NULL, ratings)
             ELSE LET rating ==
                          [existingRating EXCEPT
                              !.status = moderationData.status,
                              !.report_reason =
                                  IF moderationData.report_reason = UNDEF THEN @
                                  ELSE moderationData.report_reason,
                              !.moderated_by = admin.id]
                  IN  IF ~RatingRowValid(rating)
                      THEN Res(500, "Failed to moderate rating", NULL, ratings)
                      ELSE Res(200, "Rating moderated successfully", rating,
                               [ratings EXCEPT ![id] = rating])

RatingAdminRoles == {SUPER_ADMIN, ADMIN}

moderateRating ==
    \E token \in TokenInputs, id \in RatingIds, moderationData \in RatingModerationBodies :
        LET g == GuardedRoute(RatingAdminRoles, token)
            r == Outcome(g, moderateRatingHandler(g.admin, id, moderationData), ratings)
        IN  /\ ratings' = r.tbl
            /\ last' = Last("moderateRating", token, id, moderationData, r)
            /\ UNCHANGED notRatings

deleteRatingHandler(admin, id) ==
    IF ~Has(ratings, id)
    THEN Res(404, "Rating not found", NULL, ratings)
    ELSE LET rating == ratings[id]
             acc == RatingAccess(admin, rating)
         IN  IF acc = 1
             THEN Res(403, "Cannot delete rating from different country", NULL, ratings)
             ELSE IF acc = 2
             THEN Res(403, "Cannot delete rating from different city", NULL, ratings)
             ELSE Res(200, "Rating deleted successfully", NULL, Delete(ratings, id))

deleteRating ==
    \E token \in TokenInputs, id \in RatingIds :
        LET g == GuardedRoute(RatingAdminRoles, token)
            r == Outcome(g, deleteRatingHandler(g.admin, id), ratings)
        IN  /\ ratings' = r.tbl
            /\ last' = Last("deleteRating", token, id, UNDEF, r)
            /\ UNCHANGED notRatings

-----------------------------------------------------------------------------
(* Cities: CityController in src/src/controllers/city.controller.ts *)

CityRoles == {SUPER_ADMIN, ADMIN}

\* the fields of CityUpdateDto the model keeps: <<>> not sent, <<b>> sent as b
CityUpdateBodies == {[is_active |-> <<FALSE>>], [is_active |-> <<TRUE>>]}

updateCityHandler(admin, id, updateData) ==
    IF ~Has(cities, id)
    THEN Res(404, "City not found", NULL, cities)
    ELSE LET existingCity == cities[id]
         IN  IF admin.role # SUPER_ADMIN /\ existingCity.country_id # admin.country_id
             THEN Res(403, "Cannot modify city from different country", NULL, cities)
             ELSE IF admin.role # SUPER_ADMIN /\ Truthy(admin.city_id) /\ id # admin.city_id
             THEN Res(403, "Can only modify assigned city", NULL, cities)
             ELSE LET city == [existingCity EXCEPT !.is_active =
                                  IF Len(updateData.is_active) = 0 THEN @
                                  ELSE updateData.is_active[1]]
                  IN  Res(200, "City updated successfully", city,
                          [cities EXCEPT ![id] = city])

updateCity ==
    \E token \in TokenInputs, id \in CityIds, updateData \in CityUpdateBodies :
        LET g == GuardedRoute(CityRoles, token)
            r == Outcome(g, updateCityHandler(g.admin, id, updateData), cities)
        IN  /\ cities' = r.tbl
            /\ last' = Last("updateCity", token, id, updateData, r)
            /\ UNCHANGED notCities

\* the foreign keys onto cities(id) that refuse the delete of a city: admins
\* (ON DELETE RESTRICT) and stores
CityReferenced(id) ==
    \/ \E a \in DOMAIN admins : admins[a].city_id = id
    \/ \E st \in DOMAIN stores : stores[st].city_id = id

\* ratings.fk_city_country is ON DELETE CASCADE
RatingsOutsideCity(id) ==
    [x \in {y \in DOMAIN ratings : ratings[y].city_id # id} |-> ratings[x]]

deleteCityHandler(admin, id) ==
    IF ~Has(cities, id)
    THEN Res(404, "City not found", NULL, cities)
    ELSE LET city == cities[id]
         IN  IF admin.role # SUPER_ADMIN /\ city.country_id # admin.country_id
             THEN Res(403, "Cannot delete city from different country", NULL, cities)
             ELSE IF CityReferenced(id)
             THEN Res(500, "Failed to delete city", NULL, cities)
             ELSE Res(200, "City deleted successfully", NULL, Delete(cities, id))

deleteCity ==
    \E token \in TokenInputs, id \in CityIds :
        LET g == GuardedRoute(CityRoles, token)
            r == Outcome(g, deleteCityHandler(g.admin, id), cities)
        IN  /\ cities' = r.tbl
            /\ ratings' = IF r.status = 200 THEN RatingsOutsideCity(id) ELSE ratings
            \* support_tickets.fk_city_country is ON DELETE CASCADE
            /\ support_tickets' =
                  IF r.status = 200
                  THEN [t \in {x \in DOMAIN support_tickets :
                                  support_tickets[x].city_id # id} |-> support_tickets[t]]
                  ELSE support_tickets
            /\ last' = Last("deleteCity", token, id, UNDEF, r)
            /\ UNCHANGED <<admins, tokens, countries, stores, orders,
                           store_item_categories, now, listings>>

\* zone names a request can carry; a zone of the model is its id and its name
ZoneNames == {"z1", "z"}

Zone(id, name) == [id |-> id, name |-> name]

\* the indexes of the zones of a list that satisfy a test
ZoneIdsOf(zones) == {zones[k].id : k \in 1..Len(zones)}
ZoneNamesOf(zones) == {zones[k].name : k \in 1..Len(zones)}

\* crypto.randomUUID(): an id that no zone of the city holds
randomUUID(zones) ==
    "zn" \o ToString(CHOOSE k \in 1..(Len(zones) + 1) :
                        /\ ("zn" \o ToString(k)) \notin ZoneIdsOf(zones)
                        /\ \A j \in 1..(k - 1) : ("zn" \o ToString(j)) \in ZoneIdsOf(zones))

MinZoneNameLen == 2

\* validateZone: the name must have at least 2 characters after trim()
validateZone(zone) == Len(zone.name) >= MinZoneNameLen

addZoneHandler(admin, cityId, zoneData) ==
    IF ~Has(cities, cityId)
    THEN Res(404, "City not found", NULL, cities)
    ELSE LET city == cities[cityId]
         IN  IF admin.role # SUPER_ADMIN /\ city.country_id # admin.country_id
             THEN Res(403, "Cannot modify city from different country", NULL, cities)
             ELSE IF admin.role # SUPER_ADMIN /\ Truthy(admin.city_id) /\ cityId # admin.city_id
             THEN Res(403, "Can only modify assigned city", NULL, cities)
             ELSE IF ~validateZone(zoneData)
             THEN Res(400, "Invalid zone data", NULL, cities)
             ELSE IF zoneData.name \in ZoneNamesOf(city.zones)
             THEN Res(409, "Zone name already exists in this city", NULL, cities)
             ELSE LET newZone == Zone(randomUUID(city.zones), zoneData.name)
                  IN  Res(201, "Zone added successfully", newZone,
                          [cities EXCEPT ![cityId].zones = Append(@, newZone)])

addZone ==
    \E token \in TokenInputs, cityId \in CityIds, name \in ZoneNames :
        LET zoneData == [name |-> name]
            g == GuardedRoute(CityRoles, token)
            r == Outcome(g, addZoneHandler(g.admin, cityId, zoneData), cities)
        IN  /\ cities' = r.tbl
            /\ last' = Last("addZone", token, cityId, zoneData, r)
            /\ UNCHANGED notCities

deleteZoneHandler(admin, cityId, zoneId) ==
    IF ~Has(cities, cityId)
    THEN Res(404, "City not found", NULL, cities)
    ELSE LET city == cities[cityId]
         IN  IF admin.role # SUPER_ADMIN /\ city.country_id # admin.country_id
             THEN Res(403, "Cannot modify city from different country", NULL, cities)
             ELSE IF admin.role # SUPER_ADMIN /\ Truthy(admin.city_id) /\ cityId # admin.city_id
             THEN Res(403, "Can only modify assigned city", NULL, cities)
             ELSE IF zoneId \notin ZoneIdsOf(city.zones)
             THEN Res(404, "Zone not found", NULL, cities)
             ELSE Res(200, "Zone deleted successfully", NULL,
                      [cities EXCEPT ![cityId].zones =
                          SelectSeq(@, LAMBDA z : z.id # zoneId)])

deleteZone ==
    \E token \in TokenInputs, cityId \in CityIds, zoneId \in {"zn1"} :
        LET g == GuardedRoute(CityRoles, token)
            r == Outcome(g, deleteZoneHandler(g.admin, cityId, zoneId), cities)
        IN  /\ cities' = r.tbl
            /\ last' = Last("deleteZone", token, cityId, [zoneId |-> zoneId], r)
            /\ UNCHANGED notCities

\* the names an updateZone request can carry
ZoneNewNames == {"z1", "z2", "z"}

updateZoneHandler(admin, cityId, zoneId, zoneData) ==
    IF ~Has(cities, cityId)
    THEN Res(404, "City not found", NULL, cities)
    ELSE LET city == cities[cityId]
             zones == city.zones
         IN  IF admin.role # SUPER_ADMIN /\ city.country_id # admin.country_id
             THEN Res(403, "Cannot modify city from different country", NULL, cities)
             ELSE IF admin.role # SUPER_ADMIN /\ Truthy(admin.city_id) /\ cityId # admin.city_id
             THEN Res(403, "Can only modify assigned city", NULL, cities)
             ELSE IF ~validateZone(zoneData)
             THEN Res(400, "Invalid zone data", NULL, cities)
             ELSE IF zoneId \notin ZoneIdsOf(zones)
             THEN Res(404, "Zone not found", NULL, cities)
             ELSE LET zoneIndex == CHOOSE k \in 1..Len(zones) :
                                      /\ zones[k].id = zoneId
                                      /\ \A j \in 1..(k - 1) : zones[j].id # zoneId
                      updatedZone == Zone(zones[zoneIndex].id, zoneData.name)
                  IN  IF /\ zoneData.name # zones[zoneIndex].name
                         /\ \E i \in 1..Len(zones) :
                                i # zoneIndex /\ zones[i].name = zoneData.name
                      THEN Res(409, "Zone name already exists in this city", NULL, cities)
                      ELSE Res(200, "Zone updated successfully", updatedZone,
                               [cities EXCEPT ![cityId].zones[zoneIndex] = updatedZone])

\* the requests name city a1 or a city that does not exist
updateZone ==
    \E token \in TokenInputs, cityId \in {"a1", "a0"}, zoneId \in {"zn1", "zn2"},
       name \in ZoneNewNames :
        LET zoneData == [name |-> name]
            g == GuardedRoute(CityRoles, token)
            r == Outcome(g, updateZoneHandler(g.admin, cityId, zoneId, zoneData), cities)
        IN  /\ cities' = r.tbl
            /\ last' = Last("updateZone", token, cityId,
                            [zoneId |-> zoneId, name |-> name], r)
            /\ UNCHANGED notCities

\* no more cities are created than this
MaxNewCities == 1

NewCityId(i) == "cnew" \o ToString(i)
FreshCityIds == {NewCityId(i) : i \in 1..MaxNewCities}

\* the fields of CityCreateDto the model keeps; zones is the list of the
\* names of the zones sent (no zones sent is the empty list)
CityCreateDto(country_id, name, zones) ==
    [country_id |-> country_id, name |-> name, zones |-> zones]

CityCreateBodies ==
    {CityCreateDto("A", "a1", <<>>),
     CityCreateDto("A", "a9", <<>>),
     CityCreateDto("A", "a9", <<"z1", "z2">>),
     CityCreateDto("A", "a9", <<"z1", "z1">>),
     CityCreateDto("B", "a9", <<"z">>)}

\* CityController.createCity: the zones of the body are stored as sent (they
\* carry no id)
createCityHandler(admin, cityData, id) ==
    IF admin.role # SUPER_ADMIN /\ cityData.country_id # admin.country_id
    THEN Res(403, "Cannot create city for different country", NULL, cities)
    ELSE IF \E y \in DOMAIN cities :
                cities[y].country_id = cityData.country_id /\ cities[y].name = cityData.name
    THEN Res(409, "City name already exists in this country", NULL, cities)
    ELSE IF ~Has(countries, cityData.country_id)
    THEN Res(500, "Failed to create city", NULL, cities)
    ELSE LET city == [country_id |-> cityData.country_id, name |-> cityData.name,
                      is_active |-> TRUE,
                      zones |-> [k \in 1..Len(cityData.zones) |->
                                    Zone(UNDEF, cityData.zones[k])]]
         IN  Res(201, "City created successfully", city, Insert(cities, id, city))

createCity ==
    \E token \in TokenInputs, cityData \in CityCreateBodies, id \in FreshCityIds :
        LET g == GuardedRoute(CityRoles, token)
            r == Outcome(g, createCityHandler(g.admin, cityData, id), cities)
        IN  /\ ~Has(cities, id)
            /\ cities' = r.tbl
            /\ last' = Last("createCity", token, id, cityData, r)
            /\ UNCHANGED notCities

-----------------------------------------------------------------------------
(* Countries: src/src/controllers/country.controller.ts *)

MaxNewCountries == 1
NewCountryId(i) == "cnew" \o ToString(i)
NewCountryIds == {NewCountryId(i) : i \in 1..MaxNewCountries}
AllCountryIds == CountryIds \cup NewCountryIds

\* gen_random_uuid(): the next primary key the countries table hands out
FreshCountryIds ==
    {NewCountryId(i) : i \in {j \in 1..MaxNewCountries :
        /\ NewCountryId(j) \notin DOMAIN countries
        /\ \A k \in 1..(j - 1) : NewCountryId(k) \in DOMAIN countries}}

CountryRoles == {SUPER_ADMIN}

\* ISO codes a create request can carry: one that is taken, and new ones
CountryCodes == {"A"} \cup {"N" \o ToString(i) : i \in 1..MaxNewCountries}

createCountryHandler(admin, countryData, id) ==
    IF admin.role # SUPER_ADMIN
    THEN Res(403, "Only super admin can create countries", NULL, countries)
    ELSE IF \E c \in DOMAIN countries : countries[c].code = countryData.code
    THEN Res(409, "Country code already exists", NULL, countries)
    ELSE LET country == [code |-> countryData.code, is_active |-> TRUE]
         IN  Res(201, "Country created successfully", country, Insert(countries, id, country))

\* POST /create of the country routes
createCountryRoute(token, countryData, id) ==
    LET g == GuardedRoute(CountryRoles, token)
    IN  Outcome(g, createCountryHandler(g.admin, countryData, id), countries)

createCountry ==
    \E token \in TokenInputs, code \in CountryCodes, id \in FreshCountryIds :
        LET countryData == [code |-> code]
            r == createCountryRoute(token, countryData, id)
        IN  /\ countries' = r.tbl
            /\ last' = Last("createCountry", token, UNDEF, countryData, r)
            /\ UNCHANGED notCountries

\* the field of CountryUpdateDto the model keeps
CountryUpdateBodies == {[is_active |-> <<FALSE>>], [is_active |-> <<TRUE>>]}

updateCountryHandler(admin, id, updateData) ==
    IF admin.role # SUPER_ADMIN
    THEN Res(403, "Only super admin can update countries", NULL, countries)
    ELSE IF ~Has(countries, id)
    THEN Res(404, "Country not found", NULL, countries)
    ELSE LET country == [countries[id] EXCEPT !.is_active =
                            IF Len(updateData.is_active) = 0 THEN @
                            ELSE updateData.is_active[1]]
         IN  Res(200, "Country updated successfully", country,
                 [countries EXCEPT ![id] = country])

\* PUT /:id of the country routes
updateCountryRoute(token, id, updateData) ==
    LET g == GuardedRoute(CountryRoles, token)
    IN  Outcome(g, updateCountryHandler(g.admin, id, updateData), countries)

updateCountry ==
    \E token \in TokenInputs, id \in AllCountryIds, updateData \in CountryUpdateBodies :
        LET r == updateCountryRoute(token, id, updateData)
        IN  /\ countries' = r.tbl
            /\ last' = Last("updateCountry", token, id, updateData, r)
            /\ UNCHANGED notCountries

\* cities:cities(count) and admins:admins(count) of the row; the model has no
\* users table
hasDependencies(id) ==
    \/ \E y \in DOMAIN cities : cities[y].country_id = id
    \/ \E a \in DOMAIN admins : admins[a].country_id = id

\* stores.country_id references countries(id) without ON DELETE
CountryReferenced(id) == \E st \in DOMAIN stores : stores[st].country_id = id

\* ratings.fk_country is ON DELETE CASCADE
RatingsOutsideCountry(id) ==
    [x \in {y \in DOMAIN ratings : ratings[y].country_id # id} |-> ratings[x]]

deleteCountryHandler(admin, id) ==
    IF admin.role # SUPER_ADMIN
    THEN Res(403, "Only super admin can delete countries", NULL, countries)
    ELSE IF ~Has(countries, id)
    THEN Res(404, "Country not found", NULL, countries)
    ELSE IF hasDependencies(id)
    THEN Res(400, "Cannot delete country with existing cities, admins, or users. Deactivate it instead.",
             NULL, countries)
    ELSE IF CountryReferenced(id)
    THEN Res(500, "Failed to delete country", NULL, countries)
    ELSE Res(200, "Country deleted successfully", NULL, Delete(countries, id))

\* DELETE /:id declared the way the city routes declare it: roleGuard lets
\* ADMIN in and the handler has no role test of its own
deleteCountryRouteLikeCity(token, id) ==
    LET g == GuardedRoute(CityRoles, token)
    IN  Outcome(g,
                IF ~Has(countries, id)
                THEN Res(404, "Country not found", NULL, countries)
                ELSE IF hasDependencies(id)
                THEN Res(400, "Cannot delete country with existing cities, admins, or users. Deactivate it instead.",
                         NULL, countries)
                ELSE IF CountryReferenced(id)
                THEN Res(500, "Failed to delete country", NULL, countries)
                ELSE Res(200, "Country deleted successfully", NULL, Delete(countries, id)),
                countries)

\* DELETE /:id of the country routes
deleteCountryRoute(token, id) ==
    LET g == GuardedRoute(CountryRoles, token)
    IN  Outcome(g, deleteCountryHandler(g.admin, id), countries)

deleteCountry ==
    \E token \in TokenInputs, id \in AllCountryIds :
        LET r == deleteCountryRoute(token, id)
        IN  /\ countries' = r.tbl
            /\ ratings' = IF r.status = 200 THEN RatingsOutsideCountry(id) ELSE ratings
            \* support_tickets.fk_country is ON DELETE CASCADE
            /\ support_tickets' =
                  IF r.status = 200
                  THEN [t \in {x \in DOMAIN support_tickets :
                                  support_tickets[x].country_id # id} |-> support_tickets[t]]
                  ELSE support_tickets
            /\ last' = Last("deleteCountry", token, id, UNDEF, r)
            /\ UNCHANGED <<admins, tokens, cities, stores, orders,
                           store_item_categories, now, listings>>

-----------------------------------------------------------------------------
(* Order creation: OrderController.createOrder *)

\* Of the orders row the model keeps store_id, the two statuses, the payment
\* option, the driver, the promo code, the items and the four totals; the
\* store takes a row that satisfies the constraints over these columns.

\* gen_random_uuid(): the next primary key the orders table hands out
FreshOrderIds ==
    {NewOrderId(i) : i \in {j \in 1..MaxNewOrders :
        /\ NewOrderId(j) \notin DOMAIN orders
        /\ \A k \in 1..(j - 1) : NewOrderId(k) \in DOMAIN orders}}

\* the promo_codes rows createOrder reads, with the columns of the table
promo_codes ==
    [p1 |-> [type |-> "percentage", discount_amount |-> 20, maximum_discount |-> 10,
             is_active |-> TRUE],
     p2 |-> [type |-> "fixed", discount_amount |-> 5, maximum_discount |-> 10,
             is_active |-> FALSE]]

\* a property read row.name: <<v>> for a value, <<>> for undefined
Field(row, name) == IF name \in DOMAIN row THEN <<row[name]>> ELSE <<>>

\* an optional array of a line item: <<>> when not sent, <<S>> when sent
OrderItem(id, quantity, options, extras) ==
    [id |-> id, quantity |-> quantity, options |-> options, extras |-> extras]

OrderItemLists ==
    {<<OrderItem("i1", 1, <<>>, <<>>)>>,
     <<OrderItem("i1", 1, <<{"large"}>>, <<{[name |-> "cheese", price |-> 10]}>>)>>,
     <<OrderItem("i1", 1, <<{"huge"}>>, <<>>)>>,
     <<OrderItem("i1", 1, <<>>, <<{[name |-> "bacon", price |-> 10]}>>)>>,
     <<OrderItem("i1", 1, <<>>, <<{[name |-> "cheese", price |-> 5]}>>)>>,
     <<OrderItem("i1", 1, <<>>, <<>>), OrderItem("i2", 1, <<>>, <<>>)>>,
     <<OrderItem("i9", 1, <<>>, <<>>)>>}

\* the fields of OrderCreateDto the model keeps; UNDEF = field not sent
OrderCreateDto(store_id, payment_option_id, promo_code_id, items) ==
    [store_id |-> store_id, payment_option_id |-> payment_option_id,
     promo_code_id |-> promo_code_id, items |-> items]

\* the bodies tried: a valid one, and the same with one field changed
OrderCreateBodies ==
    {OrderCreateDto(store_id, UNDEF, UNDEF, <<OrderItem("i1", 1, <<>>, <<>>)>>) :
        store_id \in {"s1", "s2", "s0"}}
    \cup {OrderCreateDto("s1", po, UNDEF, <<OrderItem("i1", 1, <<>>, <<>>)>>) :
        po \in {"po1", "po2"}}
    \cup {OrderCreateDto("s1", UNDEF, promo, <<OrderItem("i1", 1, <<>>, <<>>)>>) :
        promo \in {"p1", "p2"}}
    \cup {OrderCreateDto("s1", UNDEF, UNDEF, items) : items \in OrderItemLists}

\* PaymentService.mockFailedPayment
mockFailedPayment == [success |-> FALSE, status |-> "not_paid"]

\* PaymentService.validatePayment: "For now, always return success"
validatePayment == [success |-> TRUE, status |-> "paid"]

\* every submitted option is the name of an item of one of the option groups
validOptions(storeItem, orderItem) ==
    \A opt \in orderItem.options[1] :
        \E itemOpt \in storeItem.options : opt \in itemOpt

\* validExtras that looks for the extra by name only
validExtrasByName(storeItem, orderItem) ==
    \A ext \in orderItem.extras[1] :
        \E e \in storeItem.extras : e.name = ext.name

\* every submitted extra is an extra of the item, at the price of the item
validExtras(storeItem, orderItem) ==
    \A ext \in orderItem.extras[1] :
        \E e \in storeItem.extras : e.name = ext.name /\ e.price = ext.price

RECURSIVE SumPrices(_)
\* orderItem.extras.reduce((sum, ext) => sum + ext.price, 0)
SumPrices(extras) ==
    IF extras = {} THEN 0
    ELSE LET ext == CHOOSE x \in extras : TRUE
         IN  ext.price + SumPrices(extras \ {ext})

\* (storeItem.price + extrasCost) * orderItem.quantity
itemTotal(orderItem) ==
    LET extrasCost == IF Len(orderItem.extras) = 0 THEN 0
                      ELSE SumPrices(orderItem.extras[1])
    IN  (store_items[orderItem.id].price + extrasCost) * orderItem.quantity

RECURSIVE totalItemPrice(_)
\* totalItemPrice += itemTotal over data.items
totalItemPrice(items) ==
    IF items = <<>> THEN 0 ELSE itemTotal(Head(items)) + totalItemPrice(Tail(items))

RECURSIVE totalItemQuantity(_)
\* totalItemQuantity += orderItem.quantity over data.items
totalItemQuantity(items) ==
    IF items = <<>> THEN 0 ELSE Head(items).quantity + totalItemQuantity(Tail(items))

\* discountAmount as createOrder computes it from the promo_codes row;
\* <<>> is undefined or NaN
discountAmount(promoCode, total) ==
    LET discount_type == Field(promoCode, "discount_type")
        discount_value == Field(promoCode, "discount_value")
        max_discount == Field(promoCode, "max_discount")
        d == IF discount_type = <<"percentage">>
             THEN IF Len(discount_value) = 0 THEN <<>>
                  ELSE <<(total * discount_value[1]) \div 100>>
             ELSE discount_value
    IN  IF Len(max_discount) = 1 /\ max_discount[1] # 0
        THEN IF Len(d) = 0 THEN <<>>
             ELSE <<IF d[1] < max_discount[1] THEN d[1] ELSE max_discount[1]>>
        ELSE d

\* the constraints of the orders table over the columns kept: NOT NULL
\* final_price, the two enums, orders_valid_prices, orders_valid_quantity
NewOrderRowValid(row) ==
    /\ Len(row.final_price) = 1
    /\ row.order_status \in OrderStatus
    /\ row.payment_status \in DbPaymentStatus
    /\ row.total_item_price >= 0
    /\ row.discount_amount >= 0
    /\ row.final_price[1] >= 0
    /\ row.final_price[1] = row.total_item_price - row.discount_amount
    /\ row.total_item_quantity > 0

createOrderHandler(data, id) ==
    LET itemIds == {data.items[k].id : k \in 1..Len(data.items)}
        storeItems == {i \in DOMAIN store_items \cap itemIds :
                          /\ store_items[i].store_id = data.store_id
                          /\ store_items[i].is_active}
        total == totalItemPrice(data.items)
        discount == IF Truthy(data.promo_code_id)
                    THEN discountAmount(promo_codes[data.promo_code_id], total)
                    ELSE <<0>>
        paymentValidation == validatePayment
        row == [store_id |-> data.store_id,
                payment_option_id |-> IF data.payment_option_id = UNDEF THEN NULL
                                      ELSE data.payment_option_id,
                promo_code_id |-> IF data.promo_code_id = UNDEF THEN NULL
                                  ELSE data.promo_code_id,
                driver_id |-> NULL,
                items |-> data.items,
                total_item_quantity |-> totalItemQuantity(data.items),
                total_item_price |-> total,
                \* an undefined discount_amount is left out of the JSON body and
                \* the column takes its DEFAULT 0
                discount_amount |-> IF Len(discount) = 0 THEN 0 ELSE discount[1],
                \* totalItemPrice - discountAmount; NaN is sent as null
                final_price |-> IF Len(discount) = 0 THEN <<>>
                                ELSE <<total - discount[1]>>,
                payment_status |-> paymentValidation.status,
                order_status |-> IF paymentValidation.success THEN "pending"
                                 ELSE "cancelled"]
    IN  IF ~Has(stores, data.store_id)
        THEN Res(400, "Invalid store ID", NULL, orders)
        ELSE IF ~stores[data.store_id].is_active
        THEN Res(400, "Store is not active", NULL, orders)
        ELSE IF stores[data.store_id].is_busy
        THEN Res(400, "Store is currently busy", NULL, orders)
        ELSE IF Truthy(data.payment_option_id)
                /\ ~paymentOptionActive[data.payment_option_id]
        THEN Res(400, "Invalid payment option ID", NULL, orders)
        ELSE IF Truthy(data.promo_code_id)
                /\ ~promo_codes[data.promo_code_id].is_active
        THEN Res(400, "Invalid promo code ID", NULL, orders)
        ELSE IF Cardinality(storeItems) # Len(data.items)
        THEN Res(400, "Invalid item IDs", NULL, orders)
        ELSE IF \E k \in 1..Len(data.items) :
                    /\ Len(data.items[k].options) = 1
                    /\ ~validOptions(store_items[data.items[k].id], data.items[k])
        THEN Res(400, "Invalid options for item", NULL, orders)
        ELSE IF \E k \in 1..Len(data.items) :
                    /\ Len(data.items[k].extras) = 1
                    /\ ~validExtras(store_items[data.items[k].id], data.items[k])
        THEN Res(400, "Invalid extras for item", NULL, orders)
        ELSE IF ~NewOrderRowValid(row)
        THEN Res(500, "Failed to create order", NULL, orders)
        ELSE Res(201, IF paymentValidation.success THEN "Order created successfully"
                      ELSE "Order created but payment failed",
                 row, Insert(orders, id, row))

\* router.post('/create', OrderController.createOrder): a public route
createOrder ==
    \E token \in TokenInputs, data \in OrderCreateBodies, id \in FreshOrderIds :
        LET g == PublicRoute(token)
            r == Outcome(g, createOrderHandler(data, id), orders)
        IN  /\ orders' = r.tbl
            /\ last' = Last("createOrder", token, id, data, r)
            /\ UNCHANGED notOrders

\* what can fail while createOrder runs: one of its store calls (the select
\* on stores, the select on store_items, the insert into orders), or
\* data.items.map when the body has no items (a TypeError)
OrderFaults == {"stores", "store_items", "insert", "TypeError"}

\* the message of the TypeError that data.items.map throws
RawErrorText == "Cannot read properties of undefined (reading 'map')"

\* the refusals createOrder answers before it reads data.items
BeforeItems ==
    {"Invalid store ID", "Store is not active", "Store is currently busy",
     "Invalid payment option ID", "Invalid promo code ID"}

\* the failure happens only if the handler gets as far as the failing step
FaultReached(fault, r) ==
    CASE fault = "stores" -> TRUE
      [] fault \in {"store_items", "TypeError"} -> r.message \notin BeforeItems
      [] fault = "insert" -> r.status \in {201, 500}

\* createOrder when the step fails: `if (storeError || !store)` and
\* `if (itemsError || ...)` answer 400, `if (error) throw error` throws a plain
\* object and a TypeError is an Error; the catch answers 400 with
\* error.message for an Error and 500 otherwise
createOrderFailingHandler(fault) ==
    CASE fault = "stores" -> Res(400, "Invalid store ID", NULL, orders)
      [] fault = "store_items" -> Res(400, "Invalid item IDs", NULL, orders)
      [] fault = "TypeError" -> Res(400, RawErrorText, NULL, orders)
      [] fault = "insert" -> Res(500, "Failed to create order", NULL, orders)

createOrderFailing ==
    \E token \in TokenInputs, data \in OrderCreateBodies, id \in FreshOrderIds,
       fault \in OrderFaults :
        LET g == PublicRoute(token)
            r == Outcome(g, createOrderFailingHandler(fault), orders)
        IN  /\ FaultReached(fault, createOrderHandler(data, id))
            /\ orders' = r.tbl
            /\ last' = Last("createOrderFailing", token, id,
                            [data |-> data, fault |-> fault], r)
            /\ UNCHANGED notOrders

-----------------------------------------------------------------------------
(* Item categories: StoreItemCategoryController *)

StoreItemCategoryIds == {"ic1", "ic2", "ic3", "ic4"}

\* the "Validate access based on location" block; 0 = allowed
LocationAccess(admin, row) ==
    IF admin.role # SUPER_ADMIN
    THEN IF row.country_id # admin.country_id
         THEN 1
         ELSE IF Truthy(admin.city_id) /\ row.city_id # admin.city_id
              THEN 2
              ELSE 0
    ELSE 0

\* items:store_items(count): the number of items attached to the category
itemsCount(id) == Cardinality({i \in DOMAIN store_items : store_items[i].category_id = id})

\* StoreItemCategoryController.deleteCategory
deleteCategoryHandler(admin, id) ==
    IF ~(Has(store_item_categories, id) /\ Has(stores, store_item_categories[id].store_id))
    THEN Res(404, "Category not found", NULL, store_item_categories)
    ELSE LET acc == LocationAccess(admin, stores[store_item_categories[id].store_id])
         IN  IF acc = 1
             THEN Res(403, "Cannot delete category from different country", NULL,
                      store_item_categories)
             ELSE IF acc = 2
             THEN Res(403, "Cannot delete category from different city", NULL,
                      store_item_categories)
             ELSE IF itemsCount(id) > 0
             THEN Res(400, "Cannot delete category that contains items", NULL,
                      store_item_categories)
             ELSE Res(200, "Category deleted successfully", NULL,
                      Delete(store_item_categories, id))

deleteCategory ==
    \E token \in TokenInputs, id \in StoreItemCategoryIds \cup {"ic0"} :
        LET g == GuardedRoute({SUPER_ADMIN, ADMIN}, token)
            r == Outcome(g, deleteCategoryHandler(g.admin, id), store_item_categories)
        IN  /\ store_item_categories' = r.tbl
            /\ last' = Last("deleteCategory", token, id, UNDEF, r)
            /\ UNCHANGED <<admins, tokens, countries, cities, stores, orders, ratings,
                           support_tickets, now, listings>>

-----------------------------------------------------------------------------
(* Support tickets: SupportTicketController *)

MaxNow == 2

\* time passes between two requests
Tick ==
    /\ now < MaxNow
    /\ now' = now + 1
    /\ UNCHANGED <<tables, tokens, listings, last>>

TicketStatus == {"open", "in_progress", "resolved", "closed", "reopened"}

\* the fields of TicketUpdateDto the model keeps; UNDEF = field not sent, and
\* resolution_note is <<>> when not sent, <<text>> when sent
TicketUpdateDto(status, resolution_note, priority) ==
    [status |-> status, resolution_note |-> resolution_note, priority |-> priority]

TicketUpdateBodies ==
    {TicketUpdateDto("closed", <<>>, UNDEF),
     TicketUpdateDto("resolved", <<"fixed">>, UNDEF),
     TicketUpdateDto("resolved", <<>>, UNDEF),
     TicketUpdateDto("in_progress", <<>>, UNDEF),
     TicketUpdateDto(UNDEF, <<>>, "high")}

\* the CHECK constraints valid_resolution, valid_resolved_at, valid_closed_at;
\* a nullable column is <<>> when NULL
TicketRowValid(row) ==
    /\ row.status \in TicketStatus
    /\ (row.status = "resolved") <=> (Len(row.resolution_note) = 1)
    /\ (row.status = "resolved") <=> (Len(row.resolved_at) = 1)
    /\ (row.status = "closed") <=> (Len(row.closed_at) = 1)

\* SupportTicketController.updateTicket; the trigger update_tickets_updated_at
\* sets updated_at on every update
updateTicketHandler(admin, id, updateData) ==
    IF ~Has(support_tickets, id)
    THEN Res(404, "Ticket not found", NULL, support_tickets)
    ELSE LET existingTicket == support_tickets[id]
             acc == LocationAccess(admin, existingTicket)
             ticket ==
                 [country_id |-> existingTicket.country_id,
                  city_id |-> existingTicket.city_id,
                  status |-> IF updateData.status = UNDEF THEN existingTicket.status
                             ELSE updateData.status,
                  priority |-> IF updateData.priority = UNDEF THEN existingTicket.priority
                               ELSE updateData.priority,
                  resolution_note |-> IF Len(updateData.resolution_note) = 0
                                      THEN existingTicket.resolution_note
                                      ELSE updateData.resolution_note,
                  resolved_at |-> IF updateData.status = "resolved" THEN <<now>>
                                  ELSE existingTicket.resolved_at,
                  closed_at |-> IF updateData.status = "closed" THEN <<now>>
                                ELSE existingTicket.closed_at,
                  updated_at |-> now]
         IN  IF acc = 1
             THEN Res(403, "Cannot update ticket from different country", NULL,
                      support_tickets)
             ELSE IF acc = 2
             THEN Res(403, "Cannot update ticket from different city", NULL,
                      support_tickets)
             ELSE IF updateData.status = "resolved" /\ Len(updateData.resolution_note) = 0
             THEN Res(400, "Resolution note required when resolving ticket", NULL,
                      support_tickets)
             ELSE IF ~TicketRowValid(ticket)
             THEN Res(500, "Failed to update ticket", NULL, support_tickets)
             ELSE Res(200, "Ticket updated successfully", ticket,
                      [support_tickets EXCEPT ![id] = ticket])

updateTicket ==
    \E token \in TokenInputs, id \in {"t1", "t0"}, updateData \in TicketUpdateBodies :
        LET g == AuthRoute(token)
            r == Outcome(g, updateTicketHandler(g.admin, id, updateData), support_tickets)
        IN  /\ support_tickets' = r.tbl
            /\ last' = Last("updateTicket", token, id, updateData, r)
            /\ UNCHANGED <<admins, tokens, countries, cities, stores, orders, ratings,
                           store_item_categories, now, listings>>

-----------------------------------------------------------------------------
(* Categories: CategoryController and update_category_position *)

AllCategoryIds == CategoryIds \cup {"cat3", "cat4"}

\* cat1, cat3, cat4 are the categories of country A with no city, at the
\* positions 0, 1, 2; cat2 is the one category of city b1
InitCategories ==
    [c \in AllCategoryIds |->
        [country_id |-> IF c = "cat2" THEN "B" ELSE "A",
         city_id |-> IF c = "cat2" THEN "b1" ELSE NULL,
         is_active |-> TRUE,
         position |-> CASE c = "cat1" -> 0 [] c = "cat3" -> 1 [] c = "cat4" -> 2
                        [] c = "cat2" -> 0]]

\* the calls that may be under way at the same time
MaxInFlight == 2
Procs == 1..MaxInFlight

\* a request under way: what the handler holds between two store calls
InFlight(op, token, id, body, v_old, p_new) ==
    [op |-> op, token |-> token, id |-> id, body |-> body, v_old |-> v_old, p_new |-> p_new]

Idle == InFlight("idle", NoToken, UNDEF, UNDEF, 0, 0)

\* the country_id and city_id filters of CategoryQueryParams; UNDEF = not sent
CategoryQueryParams ==
    [country_id : {UNDEF, "A", "B"}, city_id : {UNDEF, "a1", "b1"}]

\* the "Apply location-based access control" block of getCategories
getCategoriesRows(admin, query) ==
    {c \in DOMAIN categories :
        IF admin.role # SUPER_ADMIN
        THEN Truthy(admin.country_id) =>
                /\ categories[c].country_id = admin.country_id
                /\ Truthy(admin.city_id) =>
                      categories[c].city_id \in {NULL, admin.city_id}
        ELSE Truthy(query.country_id) =>
                /\ categories[c].country_id = query.country_id
                /\ Truthy(query.city_id) => categories[c].city_id = query.city_id}

\* default page 1 and limit 10 hold every row of the model
getCategoriesHandler(admin, query) ==
    Res(200, "Categories retrieved successfully", getCategoriesRows(admin, query),
        categories)

getCategories ==
    \E token \in TokenInputs, query \in CategoryQueryParams :
        LET g == GuardedRoute({SUPER_ADMIN, ADMIN, OPERATOR}, token)
            r == Outcome(g, getCategoriesHandler(g.admin, query), categories)
        IN  /\ last' = Last("getCategories", token, UNDEF, query, r)
            /\ UNCHANGED <<tables, tokens, now, listings>>

\* the rows of one position group: country_id = p_country_id AND
\* COALESCE(city_id, UUID_NIL()) = COALESCE(p_city_id, UUID_NIL())
PositionGroup(tbl, p_country_id, p_city_id) ==
    {x \in DOMAIN tbl : tbl[x].country_id = p_country_id /\ tbl[x].city_id = p_city_id}

\* SELECT COALESCE(MAX(position), 0)
v_max_position(tbl, p_country_id, p_city_id) ==
    LET ps == {tbl[x].position : x \in PositionGroup(tbl, p_country_id, p_city_id)}
    IN  IF ps = {} THEN 0 ELSE CHOOSE m \in ps : \A q \in ps : q <= m

\* "Validate new position": the position clamped to 0..v_max_position
p_new_position(tbl, position, p_country_id, p_city_id) ==
    LET v_max == v_max_position(tbl, p_country_id, p_city_id)
    IN  IF position < 0 THEN 0 ELSE IF position > v_max THEN v_max ELSE position

\* "Update positions": the UPDATE that shifts the rows in between, then the
\* UPDATE that places the row; both read the table as it is when they run
ShiftAndPlace(tbl, id, v_old, p_new, p_country_id, p_city_id) ==
    LET group == PositionGroup(tbl, p_country_id, p_city_id)
        shifted ==
            [x \in DOMAIN tbl |->
                IF x \in group /\ v_old > p_new
                   /\ tbl[x].position >= p_new /\ tbl[x].position < v_old
                THEN [tbl[x] EXCEPT !.position = @ + 1]
                ELSE IF x \in group /\ v_old < p_new
                        /\ tbl[x].position > v_old /\ tbl[x].position <= p_new
                THEN [tbl[x] EXCEPT !.position = @ - 1]
                ELSE tbl[x]]
    IN  IF v_old = p_new
        THEN tbl
        ELSE [shifted EXCEPT ![id].position = p_new]

\* update_category_position run with nothing else in between
update_category_position(tbl, id, position, p_country_id, p_city_id) ==
    ShiftAndPlace(tbl, id, tbl[id].position,
                  p_new_position(tbl, position, p_country_id, p_city_id),
                  p_country_id, p_city_id)

\* the position of a request body: <<>> = missing or not a number
PositionBodies == {[position |-> <<>>], [position |-> <<0>>], [position |-> <<2>>]}

\* CategoryController.updatePosition up to the rpc call: the refusal, or
\* status 0 when the handler goes on to call update_category_position
updateCategoryPositionChecks(admin, id, body) ==
    IF Len(body.position) = 0 \/ body.position[1] < 0
    THEN Res(400, "Invalid position value", NULL, categories)
    ELSE IF ~Has(categories, id)
    THEN Res(404, "Category not found", NULL, categories)
    ELSE IF admin.role # SUPER_ADMIN /\ categories[id].country_id # admin.country_id
    THEN Res(403, "Cannot modify category from different country", NULL, categories)
    ELSE IF admin.role # SUPER_ADMIN /\ Truthy(categories[id].city_id)
            /\ categories[id].city_id # admin.city_id
    THEN Res(403, "Cannot modify category from different city", NULL, categories)
    ELSE Res(0, "", NULL, categories)

\* CategoryController.updatePosition: the tests, then one rpc call
updateCategoryPositionHandler(admin, id, body) ==
    LET checks == updateCategoryPositionChecks(admin, id, body)
    IN  IF checks.status # 0
        THEN checks
        ELSE Res(200, "Category position updated successfully", NULL,
                 update_category_position(categories, id, body.position[1],
                                          categories[id].country_id,
                                          categories[id].city_id))

updateCategoryPosition ==
    \E token \in TokenInputs, id \in AllCategoryIds \cup {"cat0"}, body \in PositionBodies :
        LET g == GuardedRoute({SUPER_ADMIN, ADMIN}, token)
            r == Outcome(g, updateCategoryPositionHandler(g.admin, id, body), categories)
        IN  /\ categories' = r.tbl
            /\ last' = Last("updateCategoryPosition", token, id, body, r)
            /\ UNCHANGED <<tables, tokens, now, payment_options, store_item_photos, support_messages,
                           pending>>

\* update_category_position is called while another call may be under way:
\* it runs its two SELECTs and the "Validate new position" block
update_category_position_select ==
    \E p \in Procs, id \in AllCategoryIds, position \in {0, 1, 2} :
        /\ pending[p] = Idle
        /\ pending' =
              [pending EXCEPT ![p] =
                  InFlight("update_category_position", NoToken, id, UNDEF,
                           categories[id].position,
                           p_new_position(categories, position,
                                          categories[id].country_id,
                                          categories[id].city_id))]
        /\ UNCHANGED <<tables, tokens, now, categories, payment_options,
                       store_item_photos, support_messages, last>>

\* the call runs its UPDATEs on the rows as they are by then, and commits
update_category_position_update ==
    \E p \in Procs :
        LET call == pending[p] IN
        /\ call.op = "update_category_position"
        /\ categories' =
              ShiftAndPlace(categories, call.id, call.v_old, call.p_new,
                            categories[call.id].country_id,
                            categories[call.id].city_id)
        /\ pending' = [pending EXCEPT ![p] = Idle]
        /\ UNCHANGED <<tables, tokens, now, payment_options, store_item_photos, support_messages, last>>

-----------------------------------------------------------------------------
(* Payment options: PaymentOptionController *)

MaxNewOptions == 1
NewOptionId(i) == "ponew" \o ToString(i)

\* uuid_generate_v4(): the next primary key the payment_options table hands out
FreshOptionIds ==
    {NewOptionId(i) : i \in {j \in 1..MaxNewOptions :
        /\ NewOptionId(j) \notin DOMAIN payment_options
        /\ \A k \in 1..(j - 1) : NewOptionId(k) \in DOMAIN payment_options}}

\* po1 is the default cash option and po2 the default card option of country A
InitPaymentOptions ==
    [po \in PaymentOptionIds |->
        [country_id |-> "A",
         name |-> IF po = "po1" THEN "cash on delivery" ELSE "visa",
         type |-> IF po = "po1" THEN "cash" ELSE "card",
         is_default |-> TRUE,
         position |-> IF po = "po1" THEN 0 ELSE 1]]

\* the fields of PaymentOptionCreateDto the model keeps; is_default is <<>>
\* when not sent
PaymentOptionCreateDto(country_id, name, type, is_default) ==
    [country_id |-> country_id, name |-> name, type |-> type, is_default |-> is_default]

PaymentOptionCreateBodies ==
    {PaymentOptionCreateDto("A", "mastercard", "card", <<TRUE>>),
     PaymentOptionCreateDto("A", "mastercard", "card", <<>>),
     PaymentOptionCreateDto("A", "visa", "card", <<TRUE>>),
     PaymentOptionCreateDto("B", "mastercard", "card", <<TRUE>>)}

\* createPaymentOption up to its first write: the refusal, or status 0
createPaymentOptionChecks(admin, paymentData) ==
    IF admin.role # SUPER_ADMIN /\ paymentData.country_id # admin.country_id
    THEN Res(403, "Cannot create payment option for different country", NULL,
             payment_options)
    ELSE IF \E x \in DOMAIN payment_options :
                /\ payment_options[x].country_id = paymentData.country_id
                /\ payment_options[x].name = paymentData.name
    THEN Res(409, "Payment option name already exists in this country", NULL,
             payment_options)
    ELSE Res(0, "", NULL, payment_options)

\* "If setting as default, unset other defaults for this country and type"
unsetDefaults(tbl, is_default, country_id, type, except) ==
    IF is_default = <<TRUE>>
    THEN [x \in DOMAIN tbl |->
            IF tbl[x].country_id = country_id /\ tbl[x].type = type /\ x # except
            THEN [tbl[x] EXCEPT !.is_default = FALSE]
            ELSE tbl[x]]
    ELSE tbl

\* "Get max position for this country": maxPos.position + 1, or 0
nextPosition(tbl, country_id) ==
    LET ps == {tbl[x].position : x \in {y \in DOMAIN tbl : tbl[y].country_id = country_id}}
    IN  IF ps = {} THEN 0 ELSE (CHOOSE m \in ps : \A q \in ps : q <= m) + 1

\* the insert of createPaymentOption on the table as it is by then;
\* unique_name_per_country makes it fail
insertPaymentOption(tbl, paymentData, id) ==
    IF \E x \in DOMAIN tbl :
          tbl[x].country_id = paymentData.country_id /\ tbl[x].name = paymentData.name
    THEN Res(500, "Failed to create payment option", NULL, tbl)
    ELSE LET row == [country_id |-> paymentData.country_id,
                     name |-> paymentData.name,
                     type |-> paymentData.type,
                     is_default |-> paymentData.is_default = <<TRUE>>,
                     position |-> nextPosition(tbl, paymentData.country_id)]
         IN  Res(201, "Payment option created successfully", row, Insert(tbl, id, row))

\* PaymentOptionController.createPaymentOption served with no other request
\* in between
createPaymentOptionHandler(admin, paymentData, id) ==
    LET checks == createPaymentOptionChecks(admin, paymentData)
    IN  IF checks.status # 0
        THEN checks
        ELSE insertPaymentOption(
                 unsetDefaults(payment_options, paymentData.is_default,
                               paymentData.country_id, paymentData.type, UNDEF),
                 paymentData, id)

\* an insert that fails leaves the defaults unset: the two writes are two
\* statements
createPaymentOption ==
    \E token \in TokenInputs, paymentData \in PaymentOptionCreateBodies,
       id \in FreshOptionIds :
        LET g == GuardedRoute({SUPER_ADMIN, ADMIN}, token)
            r == Outcome(g, createPaymentOptionHandler(g.admin, paymentData, id),
                         payment_options)
        IN  /\ payment_options' = r.tbl
            /\ last' = Last("createPaymentOption", token, id, paymentData, r)
            /\ UNCHANGED <<tables, tokens, now, categories, store_item_photos, support_messages, pending>>

\* createPaymentOption as far as the update that unsets the defaults; the
\* request then waits for its next store call while others are served
createPaymentOptionUnset ==
    \E token \in TokenInputs, paymentData \in PaymentOptionCreateBodies :
        LET g == GuardedRoute({SUPER_ADMIN, ADMIN}, token)
            r == Outcome(g, createPaymentOptionChecks(g.admin, paymentData),
                         payment_options)
        IN  /\ pending[1] = Idle
            /\ r.status = 0
            /\ payment_options' =
                  unsetDefaults(payment_options, paymentData.is_default,
                                paymentData.country_id, paymentData.type, UNDEF)
            /\ pending' = [pending EXCEPT ![1] =
                              InFlight("createPaymentOption", token, UNDEF, paymentData,
                                       0, 0)]
            /\ UNCHANGED <<tables, tokens, now, categories, store_item_photos, support_messages, last>>

\* the waiting createPaymentOption reads the max position, inserts and answers
createPaymentOptionInsert ==
    \E id \in FreshOptionIds :
        LET call == pending[1]
            r == insertPaymentOption(payment_options, call.body, id)
        IN  /\ call.op = "createPaymentOption"
            /\ payment_options' = r.tbl
            /\ pending' = [pending EXCEPT ![1] = Idle]
            /\ last' = Last("createPaymentOption", call.token, id, call.body, r)
            /\ UNCHANGED <<tables, tokens, now, categories, store_item_photos, support_messages>>

\* the fields of PaymentOptionUpdateDto the model keeps; UNDEF or <<>> = not sent
PaymentOptionUpdateDto(type, is_default, position) ==
    [type |-> type, is_default |-> is_default, position |-> position]

PaymentOptionUpdateBodies ==
    {PaymentOptionUpdateDto(UNDEF, <<TRUE>>, <<>>),
     PaymentOptionUpdateDto(UNDEF, <<FALSE>>, <<>>),
     PaymentOptionUpdateDto("card", <<>>, <<>>)}

\* supabase .update(updateData): the fields present overwrite the row
PaymentOptionPatch(row, updateData) ==
    [country_id |-> row.country_id,
     name |-> row.name,
     type |-> IF updateData.type = UNDEF THEN row.type ELSE updateData.type,
     is_default |-> IF Len(updateData.is_default) = 0 THEN row.is_default
                    ELSE updateData.is_default[1],
     position |-> IF Len(updateData.position) = 0 THEN row.position
                  ELSE updateData.position[1]]

\* PaymentOptionController.updatePaymentOption
updatePaymentOptionHandler(admin, id, updateData) ==
    IF ~Has(payment_options, id)
    THEN Res(404, "Payment option not found", NULL, payment_options)
    ELSE LET existingOption == payment_options[id]
             unset == unsetDefaults(payment_options, updateData.is_default,
                                    existingOption.country_id, existingOption.type, id)
             paymentOption == PaymentOptionPatch(unset[id], updateData)
         IN  IF admin.role # SUPER_ADMIN /\ existingOption.country_id # admin.country_id
             THEN Res(403, "Cannot modify payment option from different country", NULL,
                      payment_options)
             ELSE Res(200, "Payment option updated successfully", paymentOption,
                      [unset EXCEPT ![id] = paymentOption])

updatePaymentOption ==
    \E token \in TokenInputs, id \in PaymentOptionIds \cup {NewOptionId(1), "po0"},
       updateData \in PaymentOptionUpdateBodies :
        LET g == GuardedRoute({SUPER_ADMIN, ADMIN}, token)
            r == Outcome(g, updatePaymentOptionHandler(g.admin, id, updateData),
                         payment_options)
        IN  /\ payment_options' = r.tbl
            /\ last' = Last("updatePaymentOption", token, id, updateData, r)
            /\ UNCHANGED <<tables, tokens, now, categories, store_item_photos, support_messages, pending>>

\* the position of a request body: <<>> = missing or not a number
OptionPositionBodies == {[position |-> <<>>], [position |-> <<0>>], [position |-> <<1>>]}

\* PaymentOptionController.updatePosition
updatePaymentOptionPositionHandler(admin, id, body) ==
    IF Len(body.position) = 0
    THEN Res(400, "Position must be a number", NULL, payment_options)
    ELSE IF ~Has(payment_options, id)
    THEN Res(404, "Payment option not found", NULL, payment_options)
    ELSE IF admin.role # SUPER_ADMIN /\ payment_options[id].country_id # admin.country_id
    THEN Res(403, "Cannot modify payment option from different country", NULL,
             payment_options)
    ELSE LET updatedOption == [payment_options[id] EXCEPT !.position = body.position[1]]
         IN  Res(200, "Payment option position updated successfully", updatedOption,
                 [payment_options EXCEPT ![id] = updatedOption])

updatePaymentOptionPosition ==
    \E token \in TokenInputs, id \in PaymentOptionIds \cup {"po0"},
       body \in OptionPositionBodies :
        LET g == GuardedRoute({SUPER_ADMIN, ADMIN}, token)
            r == Outcome(g, updatePaymentOptionPositionHandler(g.admin, id, body),
                         payment_options)
        IN  /\ payment_options' = r.tbl
            /\ last' = Last("updatePaymentOptionPosition", token, id, body, r)
            /\ UNCHANGED <<tables, tokens, now, categories, store_item_photos, support_messages, pending>>

-----------------------------------------------------------------------------
(* Initial state *)

SeedAdmin(role, country_id, city_id, username) ==
    [role |-> role, country_id |-> country_id, city_id |-> city_id,
     username |-> username, is_active |-> TRUE]

TokenOf(id, row) ==
    [id |-> id, role |-> row.role, country_id |-> row.country_id, city_id |-> row.city_id]

InitAdmins ==
    [a \in SeedAdminIds |->
        CASE a = "adm0" -> SeedAdmin(SUPER_ADMIN, NULL, NULL, "u0")
          [] a = "adm1" -> SeedAdmin(ADMIN, "A", NULL, "u1")
          [] a = "adm2" -> SeedAdmin(ADMIN, "A", "a1", "u2")
          [] a = "adm3" -> SeedAdmin(OPERATOR, "B", "b1", "u3")]

\* s1 is a store of city a2 in country A, s2 a store of city b1 in country B
InitStores ==
    [s \in SeedStoreIds |->
        IF s = "s1"
        THEN [country_id |-> "A", city_id |-> "a2", category_id |-> "cat1",
              is_busy |-> FALSE, is_active |-> TRUE]
        ELSE [country_id |-> "B", city_id |-> "b1", category_id |-> "cat2",
              is_busy |-> FALSE, is_active |-> TRUE]]

-----------------------------------------------------------------------------
(* Support messages: SupportMessageController *)

\* no more messages are created than this
MaxMessages == 3

NewMessageId(i) == "m" \o ToString(i)

MessageCreateDto(ticket_id, sender_type, is_internal) ==
    [ticket_id |-> ticket_id, sender_type |-> sender_type, is_internal |-> is_internal]

MessageCreateBodies ==
    {MessageCreateDto("t1", "admin", FALSE), MessageCreateDto("t1", "user", FALSE),
     MessageCreateDto("t1", "user", TRUE), MessageCreateDto("t0", "admin", FALSE)}

\* SupportMessageController.createMessage; created_at is CURRENT_TIMESTAMP,
\* so the new message is the newest one
createMessageHandler(admin, messageData) ==
    IF ~Has(support_tickets, messageData.ticket_id)
    THEN Res(404, "Ticket not found", NULL, support_messages)
    ELSE LET ticket == support_tickets[messageData.ticket_id]
             acc == IF messageData.sender_type = "admin"
                    THEN LocationAccess(admin, ticket) ELSE 0
             message == [id |-> NewMessageId(Len(support_messages) + 1),
                         ticket_id |-> messageData.ticket_id,
                         sender_type |-> messageData.sender_type,
                         is_internal |-> messageData.is_internal]
         IN  IF acc = 1
             THEN Res(403, "Cannot create message for different country", NULL,
                      support_messages)
             ELSE IF acc = 2
             THEN Res(403, "Cannot create message for different city", NULL,
                      support_messages)
             ELSE IF messageData.is_internal /\ messageData.sender_type # "admin"
             THEN Res(403, "Only admins can create internal messages", NULL,
                      support_messages)
             ELSE Res(201, "Message created successfully", message,
                      Append(support_messages, message))

createMessage ==
    \E token \in TokenInputs, messageData \in MessageCreateBodies :
        LET g == AuthRoute(token)
            r == Outcome(g, createMessageHandler(g.admin, messageData), support_messages)
        IN  /\ Len(support_messages) < MaxMessages
            /\ support_messages' = r.tbl
            /\ last' = Last("createMessage", token, UNDEF, messageData, r)
            /\ UNCHANGED <<tables, tokens, now, categories, payment_options,
                           store_item_photos, pending>>

\* req.query of getMessages: page and limit are <<>> when not sent and <<n>>
\* for the string of the decimal digits of n
MessageQueryParams ==
    [ticket_id : {"t1", "t0"}, sender_type : {UNDEF, "user"},
     page : {<<>>, <<1>>, <<2>>}, limit : {<<>>, <<2>>}]

RECURSIVE Reverse(_)
Reverse(s) == IF s = << >> THEN << >> ELSE Append(Reverse(Tail(s)), Head(s))

\* the filters of the query; typeof is_internal === 'boolean' is false for
\* every value of req.query and req.admin is set on this route
getMessagesRows(q) ==
    SelectSeq(support_messages,
              LAMBDA m : /\ m.ticket_id = q.ticket_id
                         /\ Truthy(q.sender_type) => m.sender_type = q.sender_type)

\* `page = 1, limit = 50` are the defaults of the destructuring
messagesFrom(q) ==
    LET page == IF Len(q.page) = 0 THEN 1 ELSE q.page[1]
        limit == IF Len(q.limit) = 0 THEN 50 ELSE q.limit[1]
    IN  (page - 1) * limit

\* to = from + limit - 1: + on a number and a string concatenates the digits
messagesTo(q) ==
    IF Len(q.limit) = 0
    THEN messagesFrom(q) + 50 - 1
    ELSE (messagesFrom(q) * Shift(q.limit[1]) + q.limit[1]) - 1

\* SupportMessageController.getMessages; `page === 1` holds only for the
\* default, a page of req.query is a string; the store refuses an offset
\* beyond the count
getMessagesHandler(admin, q) ==
    IF ~Has(support_tickets, q.ticket_id)
    THEN Res(404, "Ticket not found", NULL, support_messages)
    ELSE LET ticket == support_tickets[q.ticket_id]
             acc == LocationAccess(admin, ticket)
             oldestFirst == getMessagesRows(q)
             rows == IF Len(q.page) = 0 THEN Reverse(oldestFirst) ELSE oldestFirst
             count == Len(rows)
             limit == IF Len(q.limit) = 0 THEN 50 ELSE q.limit[1]
             from == messagesFrom(q)
             to == messagesTo(q)
         IN  IF acc = 1
             THEN Res(403, "Cannot access messages from different country", NULL,
                      support_messages)
             ELSE IF acc = 2
             THEN Res(403, "Cannot access messages from different city", NULL,
                      support_messages)
             ELSE IF from > count
             THEN Res(500, "Failed to retrieve messages", NULL, support_messages)
             ELSE Res(200, "Messages retrieved successfully",
                      [messages |-> SubSeq(rows, from + 1,
                                           IF to + 1 < count THEN to + 1 ELSE count),
                       total |-> count,
                       totalPages |-> (count + limit - 1) \div limit],
                      support_messages)

getMessages ==
    \E token \in TokenInputs, q \in MessageQueryParams :
        LET g == AuthRoute(token)
            r == Outcome(g, getMessagesHandler(g.admin, q), support_messages)
        IN  /\ last' = Last("getMessages", token, UNDEF, q, r)
            /\ UNCHANGED <<tables, tokens, now, listings>>

-----------------------------------------------------------------------------
(* Photos of a store item: StoreItemController.addPhotos *)

\* the media rows with purpose 'store_item_photo'
MediaIds == {"md1", "md2", "md3"}

\* req.body of addPhotos: positions is <<>> when not sent and <<list>> when
\* sent
AddPhotosBodies ==
    {[media_ids |-> <<"md1">>, positions |-> <<>>],
     [media_ids |-> <<"md2">>, positions |-> <<>>],
     [media_ids |-> <<"md2", "md3">>, positions |-> <<>>],
     [media_ids |-> <<"md3">>, positions |-> << <<2>> >>],
     [media_ids |-> <<"mdx">>, positions |-> <<>>]}

\* the positions of the photos of an item
photoPositions(id) ==
    {ph.position : ph \in {x \in store_item_photos : x.store_item_id = id}}

\* .order('position', { ascending: false }).limit(1).single(): <<>> when the
\* item has no photo
maxPos(id) ==
    IF photoPositions(id) = {} THEN <<>>
    ELSE <<CHOOSE m \in photoPositions(id) : \A n \in photoPositions(id) : n <= m>>

\* (maxPos?.position || -1) + 1: a position of 0 is falsy
startPosition(id) ==
    IF Len(maxPos(id)) = 0 \/ maxPos(id) = <<0>> THEN -1 + 1 ELSE maxPos(id)[1] + 1

\* positions?.[index] ?? (startPosition + index)
newPhotos(id, body) ==
    LET start == IF Len(body.positions) = 0 THEN startPosition(id) ELSE 0
    IN  {[store_item_id |-> id, media_id |-> body.media_ids[k],
          position |-> IF Len(body.positions) = 1 /\ k <= Len(body.positions[1])
                       THEN body.positions[1][k]
                       ELSE start + (k - 1)] : k \in 1..Len(body.media_ids)}

\* the constraint store_item_photos_unique_media_per_item
PhotosUnique(photos) ==
    \A x, y \in photos :
        (x.store_item_id = y.store_item_id /\ x.media_id = y.media_id) => x = y

addPhotosHandler(admin, id, body) ==
    IF id \notin DOMAIN store_items \/ ~Has(stores, store_items[id].store_id)
    THEN Res(404, "Store item not found", NULL, store_item_photos)
    ELSE LET item_stores == stores[store_items[id].store_id]
             photos == newPhotos(id, body)
         IN  IF /\ admin.role # SUPER_ADMIN
                /\ Truthy(admin.country_id)
                /\ item_stores.country_id # admin.country_id
             THEN Res(403, "Cannot modify store item from different country", NULL,
                      store_item_photos)
             ELSE IF /\ admin.role # SUPER_ADMIN
                     /\ Truthy(admin.city_id)
                     /\ item_stores.city_id # admin.city_id
             THEN Res(403, "Cannot modify store item from different city", NULL,
                      store_item_photos)
             ELSE IF \E k \in 1..Len(body.media_ids) : body.media_ids[k] \notin MediaIds
             THEN Res(400, "Invalid media IDs", NULL, store_item_photos)
             ELSE IF ~PhotosUnique(store_item_photos \cup photos)
             THEN Res(500, "Failed to add photos", NULL, store_item_photos)
             ELSE Res(200, "Photos added successfully", photos,
                      store_item_photos \cup photos)

addPhotos ==
    \E token \in TokenInputs, id \in {"i1", "i2", "i0"}, body \in AddPhotosBodies :
        LET g == GuardedRoute({SUPER_ADMIN, ADMIN, OPERATOR}, token)
            r == Outcome(g, addPhotosHandler(g.admin, id, body), store_item_photos)
        IN  /\ store_item_photos' = r.tbl
            /\ last' = Last("addPhotos", token, id, body, r)
            /\ UNCHANGED <<tables, tokens, now, categories, payment_options,
                           support_messages, pending>>

-----------------------------------------------------------------------------

\* one order, placed with store s1
InitOrders ==
    [o \in OrderIds |->
        [store_id |-> "s1", order_status |-> "pending", payment_status |-> "paid",
         payment_option_id |-> "po1", driver_id |-> NULL]]

\* r1 is a rating of country A with no city, r2 a rating of city b1
InitRatings ==
    [x \in RatingIds |->
        [country_id |-> IF x = "r1" THEN "A" ELSE "B",
         city_id |-> IF x = "r1" THEN NULL ELSE "b1",
         status |-> "pending", report_reason |-> NULL,
         moderated_by |-> NULL, is_active |-> TRUE]]

Init ==
    /\ admins = InitAdmins
    /\ tokens = {TokenOf(a, InitAdmins[a]) : a \in SeedAdminIds}
    /\ countries = [c \in CountryIds |-> [code |-> c, is_active |-> TRUE]]
    /\ cities = [y \in CityIds |->
                    [country_id |-> CityCountry[y], name |-> y, is_active |-> TRUE,
                     zones |-> << >>]]
    /\ stores = InitStores
    /\ orders = InitOrders
    /\ ratings = InitRatings
    /\ store_item_categories =
          [c \in StoreItemCategoryIds |->
              [store_id |-> IF c \in {"ic1", "ic2"} THEN "s1" ELSE "s2"]]
    /\ support_tickets =
          [t \in {"t1"} |->
              [country_id |-> "A", city_id |-> "a1", status |-> "open",
               priority |-> "medium", resolution_note |-> <<>>, resolved_at |-> <<>>,
               closed_at |-> <<>>, updated_at |-> 0]]
    /\ now = 1
    /\ categories = InitCategories
    /\ payment_options = InitPaymentOptions
    /\ store_item_photos = {}
    /\ support_messages = << >>
    /\ pending = [p \in Procs |-> Idle]
    /\ last = Last("none", NoToken, UNDEF, UNDEF, Res(0, "", NULL, NULL))

NextOrder ==
    \/ getOrders
    \/ updateOrderStatus
    \/ updateOrder
    \/ assignDriver
    \/ updatePaymentStatus
    \/ deleteOrder

SpecOrder == Init /\ [][NextOrder]_vars

NextAdmin ==
    \/ getAllAdmins
    \/ createAdmin
    \/ updateAdmin
    \/ deleteAdmin

SpecAdmin == Init /\ [][NextAdmin]_vars

NextStore ==
    \/ getStores
    \/ getStoreById
    \/ createStore
    \/ updateStore
    \/ deleteStore
    \/ toggleBusyStatus
    \/ toggleActiveStatus

SpecStore == Init /\ [][NextStore]_vars

NextRating ==
    \/ getRatings
    \/ updateRating
    \/ moderateRating
    \/ deleteRating

SpecRating == Init /\ [][NextRating]_vars

NextCity ==
    \/ updateCity
    \/ deleteCity
    \/ addZone
    \/ deleteZone

SpecCity == Init /\ [][NextCity]_vars

NextCountry ==
    \/ createCountry
    \/ updateCountry
    \/ deleteCountry

SpecCountry == Init /\ [][NextCountry]_vars

NextCreateOrder ==
    \/ createOrder
    \/ createOrderFailing
    \/ getOrders

SpecCreateOrder == Init /\ [][NextCreateOrder]_vars

NextItemCategory ==
    \/ deleteCategory

SpecItemCategory == Init /\ [][NextItemCategory]_vars

NextTicket ==
    \/ updateTicket
    \/ Tick

SpecTicket == Init /\ [][NextTicket]_vars

NextCategory ==
    \/ getCategories
    \/ updateCategoryPosition
    \/ updatePaymentOptionPosition

SpecCategory == Init /\ [][NextCategory]_vars

NextPaymentOption ==
    \/ createPaymentOption
    \/ createPaymentOptionUnset
    \/ createPaymentOptionInsert
    \/ updatePaymentOption

SpecPaymentOption == Init /\ [][NextPaymentOption]_vars

NextReposition ==
    \/ update_category_position_select
    \/ update_category_position_update

SpecReposition == Init /\ [][NextReposition]_vars

NextMessage ==
    \/ createMessage
    \/ getMessages

SpecMessage == Init /\ [][NextMessage]_vars

NextPhoto ==
    \/ addPhotos

SpecPhoto == Init /\ [][NextPhoto]_vars

NextZone ==
    \/ createCity
    \/ addZone
    \/ updateZone
    \/ deleteZone

SpecZone == Init /\ [][NextZone]_vars

-----------------------------------------------------------------------------
(* Order status *)

\* the transition graph as the specification states it
AllowedSuccessors ==
    [s \in OrderStatus |->
        CASE s = "pending" -> {"preparing", "cancelled"}
          [] s = "preparing" -> {"done_preparing", "cancelled"}
          [] s = "done_preparing" -> {"on_way", "cancelled"}
          [] s = "on_way" -> {"delivered", "cancelled"}
          [] OTHER -> {}]

\* C1: whatever operation writes an order's order_status, the stored status
\* changes from s to t only if t is an allowed successor of s (delivered and
\* cancelled are never left); a request for any other transition leaves the
\* stored status unchanged.
C1_StatusFollowsGraph ==
    [][\A o \in DOMAIN orders \cap DOMAIN orders' :
          orders'[o].order_status # orders[o].order_status
              => orders'[o].order_status \in AllowedSuccessors[orders[o].order_status]]_vars

-----------------------------------------------------------------------------
(* Location scope *)

\* the Principal of a request is what its token decodes to
Authenticated(req) == req.token # NoToken
NonSuper(req) == Authenticated(req) /\ req.token.role # SUPER_ADMIN
CityRestricted(req) ==
    NonSuper(req) /\ Truthy(req.token.country_id) /\ Truthy(req.token.city_id)

\* C2: a Principal of country A and city B that fetches a store of country A
\* and another city C gets "not found" from the get-by-id operation and does
\* not find the store in the rows of the list operation.
C2_OtherCityStoreHidden ==
    \A st \in DOMAIN stores :
        (/\ CityRestricted(last)
         /\ stores[st].country_id = last.token.country_id
         /\ stores[st].city_id # NULL
         /\ stores[st].city_id # last.token.city_id)
        => /\ (last.op = "getStoreById" /\ last.id = st) => last.status = 404
           /\ last.op = "getStores" => st \notin last.data

StoreMutations ==
    {"createStore", "updateStore", "deleteStore", "toggleBusyStatus", "toggleActiveStatus"}
OrderMutations ==
    {"updateOrder", "updateOrderStatus", "assignDriver", "updatePaymentStatus", "deleteOrder"}
RatingMutations == {"updateRating", "moderateRating", "deleteRating"}
CityMutations == {"updateCity", "deleteCity", "addZone", "deleteZone"}
AdminMutations == {"createAdmin", "updateAdmin", "deleteAdmin"}

\* the country_id of the row a mutation request is aimed at, in the tables as
\* they are when the request arrives ({} when there is no such row)
TargetCountry(req) ==
    CASE req.op \in {"createStore", "createAdmin"} ->
            {req.body.country_id}
      [] req.op \in StoreMutations \ {"createStore"} ->
            {stores[x].country_id : x \in DOMAIN stores \cap {req.id}}
      [] req.op \in OrderMutations ->
            {stores[orders[x].store_id].country_id : x \in DOMAIN orders \cap {req.id}}
      [] req.op \in RatingMutations ->
            {ratings[x].country_id : x \in DOMAIN ratings \cap {req.id}}
      [] req.op \in CityMutations ->
            {cities[x].country_id : x \in DOMAIN cities \cap {req.id}}
      [] req.op \in AdminMutations \ {"createAdmin"} ->
            {admins[x].country_id : x \in DOMAIN admins \cap {req.id}}
      [] OTHER -> {}

\* C3: a create, update, delete or entity-specific mutation requested by a
\* non-super-admin Principal whose country_id differs from the country_id of
\* the target is answered Forbidden (403) and writes nothing.
C3_CrossCountryForbidden ==
    [][(/\ NonSuper(last')
        /\ \E c \in TargetCountry(last') : c # last'.token.country_id)
       => (last'.status = 403 /\ tables' = tables)]_vars

\* the country and city a listed row belongs to
ListLocation(op, x) ==
    CASE op = "getStores" -> stores[x]
      [] op = "getOrders" -> stores[orders[x].store_id]
      [] op = "getRatings" -> ratings[x]
      [] op = "getAllAdmins" -> admins[x]

ListOps == {"getStores", "getOrders", "getRatings", "getAllAdmins"}

\* of these, the lists of entities flagged country-wide
CountryWideLists == {"getRatings"}

\* the rows in the response of a list request
ListedRows(req) ==
    IF req.op = "getOrders"
    THEN {req.data.orders[k] : k \in 1..Len(req.data.orders)}
    ELSE req.data

\* C4: every row a list operation returns to a Principal that has a city_id
\* is of the Principal's country and of the Principal's city; only a row of
\* a country-wide entity may have no city instead.
C4_ListRowsInScope ==
    (last.op \in ListOps /\ last.status = 200 /\ CityRestricted(last))
    => \A x \in ListedRows(last) :
          /\ ListLocation(last.op, x).country_id = last.token.country_id
          /\ \/ ListLocation(last.op, x).city_id = last.token.city_id
             \/ /\ last.op \in CountryWideLists
                /\ ListLocation(last.op, x).city_id = NULL

\* C5: a city mutation (update, delete, add or delete a zone) requested by a
\* Principal that has a country_id and a city_id is allowed if and only if
\* the city is of the Principal's country and is the Principal's own city:
\* on any other city it is answered Forbidden and writes nothing, on its own
\* city an admin is not answered Forbidden.
C5_CityAdminOnlyAssignedCity ==
    [][(last'.op \in CityMutations /\ CityRestricted(last') /\ Has(cities, last'.id))
       => LET own == /\ cities[last'.id].country_id = last'.token.country_id
                     /\ last'.id = last'.token.city_id
          IN  /\ ~own => (last'.status = 403 /\ tables' = tables)
              /\ (own /\ last'.token.role = ADMIN) => last'.status # 403]_vars

\* C6: a rating whose city_id is NULL can be moderated and deleted by every
\* admin of the rating's country that is not a super admin, an admin
\* restricted to one city included: such a request is not answered Forbidden.
C6_CountryWideRatingEditable ==
    [][(/\ last'.op \in {"moderateRating", "deleteRating"}
        /\ NonSuper(last')
        /\ last'.token.role = ADMIN
        /\ Has(ratings, last'.id)
        /\ ratings[last'.id].city_id = NULL
        /\ ratings[last'.id].country_id = last'.token.country_id)
       => last'.status # 403]_vars

-----------------------------------------------------------------------------
(* Admin accounts and countries *)

\* a request that would make an account a super admin, or that is aimed at
\* the account of a super admin
TouchesSuperAdmin(req) ==
    \/ req.op = "createAdmin" /\ req.body.role = SUPER_ADMIN
    \/ req.op = "updateAdmin" /\ req.body.role = SUPER_ADMIN
    \/ /\ req.op \in {"updateAdmin", "deleteAdmin"}
       /\ Has(admins, req.id)
       /\ admins[req.id].role = SUPER_ADMIN

\* C7: a request of a Principal that is not a super admin to create an
\* account as super admin, to make an account super admin, or to update or
\* delete the account of a super admin is refused and leaves the admins table
\* as it was.
C7_SuperAdminProtected ==
    [][(last'.op \in AdminMutations /\ last'.token.role # SUPER_ADMIN
        /\ TouchesSuperAdmin(last'))
       => (last'.status >= 400 /\ admins' = admins)]_vars

\* an admin asked to make another account super admin and was refused
C7_ElevationRefused ==
    /\ last.op = "updateAdmin"
    /\ last.token.role = ADMIN
    /\ last.body.role = SUPER_ADMIN
    /\ last.id # last.token.id
    /\ last.status = 403
    /\ last.message = "Invalid update parameters"

\* C8: a request of a super admin to list, create, update or delete an admin
\* account other than its own deletion is authorized (answered neither 401
\* nor 403).
C8_SuperAdminManagesAdmins ==
    (/\ last.op \in AdminMutations \cup {"getAllAdmins"}
     /\ last.token.role = SUPER_ADMIN
     /\ ~(last.op = "deleteAdmin" /\ last.id = last.token.id))
    => last.status \notin {401, 403}

CountryMutations == {"createCountry", "updateCountry", "deleteCountry"}

\* C9: a create, update or delete of a country requested by anyone but a
\* super admin is refused (401 without a token, 403 with one) and leaves the
\* countries table as it was.
C9_OnlySuperAdminWritesCountries ==
    [][(last'.op \in CountryMutations /\ last'.token.role # SUPER_ADMIN)
       => /\ last'.status = IF Authenticated(last') THEN 403 ELSE 401
          /\ countries' = countries]_vars

\* an admin asked to delete a country that has no dependencies and was refused
C9_DeleteRefused ==
    /\ last.op = "deleteCountry"
    /\ last.token.role = ADMIN
    /\ Has(countries, last.id)
    /\ ~hasDependencies(last.id)
    /\ last.status = 403

\* C10: a deleteAdmin request whose target is the account of the requesting
\* Principal is refused, and the account is still there afterwards.
C10_NoSelfDelete ==
    [][(last'.op = "deleteAdmin" /\ Authenticated(last') /\ last'.id = last'.token.id)
       => /\ last'.status >= 400
          /\ Has(admins, last'.id) => (Has(admins', last'.id) /\ admins' = admins)]_vars

\* an admin asked to delete its own account, passed every access test and was
\* stopped by the self-deletion test
C10_SelfDeleteRefused ==
    /\ last.op = "deleteAdmin"
    /\ Authenticated(last)
    /\ last.id = last.token.id
    /\ last.status = 400
    /\ last.message = "Cannot delete your own account"
    /\ Has(admins, last.id)

-----------------------------------------------------------------------------
(* Location of admin accounts *)

\* C11: in every state of the admins table an account has role super admin
\* if and only if both its country_id and its city_id are null.
C11_SuperAdminIffNoLocation ==
    \A a \in DOMAIN admins :
        admins[a].role = SUPER_ADMIN
            <=> (admins[a].country_id = NULL /\ admins[a].city_id = NULL)

-----------------------------------------------------------------------------
(* Order creation *)

\* C12: every order stored by an accepted createOrder request has
\* order_status pending right after the request.
C12_CreatedOrderIsPending ==
    [][(last'.op = "createOrder" /\ last'.status = 201)
       => /\ Has(orders', last'.id)
          /\ \A o \in DOMAIN orders' \ DOMAIN orders :
                orders'[o].order_status = "pending"]_vars

\* an order was created and is stored as pending
C12_OrderCreated ==
    /\ last.op = "createOrder"
    /\ last.status = 201
    /\ Has(orders, last.id)
    /\ orders[last.id].order_status = "pending"
    /\ orders[last.id].payment_status = "paid"

\* C14: an order of one item of price 100 at an open store, created with the
\* promo code stored as percentage, 20, maximum 10, is accepted and stored
\* with discount 10 and final price 90.
C14_PercentageDiscountCapped ==
    [][(/\ last'.op = "createOrder"
        /\ last'.body.store_id = "s1"
        /\ last'.body.items = <<OrderItem("i1", 1, <<>>, <<>>)>>
        /\ last'.body.promo_code_id = "p1"
        /\ last'.body.payment_option_id \in {UNDEF, "po1"})
       => /\ last'.status = 201
          /\ Has(orders', last'.id)
          /\ orders'[last'.id].total_item_price = 100
          /\ orders'[last'.id].discount_amount = 10
          /\ orders'[last'.id].final_price = <<90>>]_vars

\* a line item that names an option or an extra the catalog entry of the
\* item does not offer, or an extra at another price than the catalog's
NotOffered(orderItem) ==
    /\ Has(store_items, orderItem.id)
    /\ \/ /\ Len(orderItem.options) = 1
          /\ orderItem.options[1] \ UNION store_items[orderItem.id].options # {}
       \/ /\ Len(orderItem.extras) = 1
          /\ orderItem.extras[1] \ store_items[orderItem.id].extras # {}

\* C15: a createOrder request with a line item whose option or extra is not
\* offered by the catalog entry of the item, or whose extra has another price
\* than the catalog's, creates no order.
C15_UnofferedItemCreatesNoOrder ==
    [][(/\ last'.op = "createOrder"
        /\ \E k \in 1..Len(last'.body.items) : NotOffered(last'.body.items[k]))
       => orders' = orders]_vars

\* a request that passed every earlier test was refused for an extra whose
\* name the catalog has, at another price
C15_WrongPriceRefused ==
    /\ last.op = "createOrder"
    /\ last.body.items = <<OrderItem("i1", 1, <<>>, <<{[name |-> "cheese", price |-> 5]}>>)>>
    /\ last.status = 400
    /\ last.message = "Invalid extras for item"

-----------------------------------------------------------------------------
(* Order status sequence *)

\* the status that follows s on the way from pending to delivered
NextOnTheWay ==
    [s \in {"pending", "preparing", "done_preparing", "on_way"} |->
        CASE s = "pending" -> "preparing"
          [] s = "preparing" -> "done_preparing"
          [] s = "done_preparing" -> "on_way"
          [] s = "on_way" -> "delivered"]

\* C13: a status-update request of a Principal allowed on the order succeeds
\* when it asks for the next status on the way pending, preparing,
\* done_preparing, on_way, delivered, so the four requests succeed in
\* sequence; a request to move a delivered order to preparing fails with a
\* validation error (400) and leaves the order as it was.
C13_StatusSequence ==
    [][(/\ last'.op = "updateOrderStatus"
        /\ last'.token.role \in OrderRoles
        /\ Has(orders, last'.id)
        /\ OrderAccess(last'.token, stores[orders[last'.id].store_id]) = 0)
       => LET s == orders[last'.id].order_status
              t == last'.body.status
          IN  /\ (s \in DOMAIN NextOnTheWay /\ t = NextOnTheWay[s])
                    => (last'.status = 200 /\ orders'[last'.id].order_status = t)
              /\ (s = "delivered" /\ t = "preparing")
                    => (last'.status = 400 /\ orders' = orders)]_vars

\* a delivered order was asked to go back to preparing and the request was
\* refused as an invalid transition
C13_DeliveredStays ==
    /\ last.op = "updateOrderStatus"
    /\ last.body.status = "preparing"
    /\ last.status = 400
    /\ last.message = "Invalid status transition"
    /\ Has(orders, last.id)
    /\ orders[last.id].order_status = "delivered"

-----------------------------------------------------------------------------
(* Pagination *)

\* page and limit as the caller means them: the numbers sent, or the
\* defaults 1 and 10
PageOf(req) == IF Len(req.body.page) = 0 THEN 1 ELSE req.body.page[1]
LimitOf(req) == IF Len(req.body.limit) = 0 THEN 10 ELSE req.body.limit[1]

\* the ordered result of an order list requested without filters and without
\* a Principal
AllOrders == OrdersNewestFirst(DOMAIN orders)

\* ceil(total / limit)
CeilDiv(total, limit) == (total + limit - 1) \div limit

\* C18: the rows of a served order list are those at offsets (page-1)*limit
\* to page*limit-1 of the ordered result, they are no more than limit, and
\* totalPages is ceil(total/limit) with total the number of matching rows.
C18_PageWindow ==
    (last.op = "getOrders" /\ last.token = NoToken /\ last.status = 200)
    => LET page == PageOf(last)
           limit == LimitOf(last)
           n == Len(AllOrders)
           upto == IF page * limit < n THEN page * limit ELSE n
       IN  /\ last.data.orders = SubSeq(AllOrders, (page - 1) * limit + 1, upto)
           /\ Len(last.data.orders) <= limit
           /\ last.data.total = n
           /\ last.data.totalPages = CeilDiv(n, limit)

\* C19: an order list requested for a page beyond totalPages is answered
\* with success and an empty list.
C19_PageBeyondLastIsEmpty ==
    (/\ last.op = "getOrders"
     /\ last.token = NoToken
     /\ PageOf(last) > CeilDiv(Len(AllOrders), LimitOf(last)))
    => (last.status = 200 /\ last.data.orders = <<>>)

-----------------------------------------------------------------------------
(* Categories that hold items *)

\* the caller of the request passes the route's guards and the location test
\* of the category's store
MayDeleteCategory(req) ==
    /\ Authenticated(req)
    /\ req.token.role \in {SUPER_ADMIN, ADMIN}
    /\ Has(store_item_categories, req.id)
    /\ LocationAccess(req.token, stores[store_item_categories[req.id].store_id]) = 0

\* C16: deleteCategory on a category that still has at least one attached
\* item fails with a conflict error (status 409), and afterwards the category
\* row and the attached item rows are unchanged.
C16_CategoryWithItemsConflict ==
    [][(last'.op = "deleteCategory" /\ MayDeleteCategory(last') /\ itemsCount(last'.id) > 0)
       => /\ last'.status = 409
          /\ store_item_categories' = store_item_categories]_vars

-----------------------------------------------------------------------------
(* Authorization refusals *)

\* a deleteAdmin request that is refused for an authorization reason: the
\* role is not permitted, or the target is a protected super admin, of another
\* country, of another city, or the caller's own account
RefusedForAuthorization(req) ==
    /\ req.op = "deleteAdmin"
    /\ Authenticated(req)
    /\ \/ req.token.role \notin AdminRouteRoles
       \/ /\ Has(admins, req.id)
          /\ \/ req.token.role # SUPER_ADMIN /\ admins[req.id].role = SUPER_ADMIN
             \/ req.token.role # SUPER_ADMIN
                    /\ admins[req.id].country_id # req.token.country_id
             \/ req.token.role # SUPER_ADMIN /\ Truthy(req.token.city_id)
                    /\ admins[req.id].city_id # req.token.city_id
             \/ req.id = req.token.id

\* C17: every request that is refused for an authorization reason is answered
\* with HTTP status 403 and a human-readable message, and performs no write.
C17_RefusalIs403 ==
    [][RefusedForAuthorization(last')
       => /\ last'.status = 403
          /\ last'.message # ""
          /\ admins' = admins]_vars

-----------------------------------------------------------------------------
(* Repeated updates *)

\* C20: applying the same update request with the same payload twice in
\* succession to the same row yields, after the second application, a row
\* equal in every field to the row after the first application.
C20_RepeatedUpdateSameRow ==
    [][(/\ last.op = "updateTicket" /\ last'.op = "updateTicket"
        /\ last.status = 200 /\ last'.status = 200
        /\ last'.token = last.token /\ last'.id = last.id /\ last'.body = last.body)
       => support_tickets'[last.id] = support_tickets[last.id]]_vars

-----------------------------------------------------------------------------
(* Location filters of a super admin *)

\* the rows a list answers when each location filter the caller supplied is
\* applied verbatim and no other location predicate is
RowsOfSuppliedFilters(tbl, query) ==
    {x \in DOMAIN tbl :
        /\ Truthy(query.country_id) => tbl[x].country_id = query.country_id
        /\ Truthy(query.city_id) => tbl[x].city_id = query.city_id}

\* C21: for a Principal with role super-admin, a list operation adds a
\* country_id predicate exactly when the caller supplied country_id and a
\* city_id predicate exactly when the caller supplied city_id, each passed
\* through verbatim; with neither supplied, no location predicate is added.
C21_SuperAdminFiltersVerbatim ==
    (last.op = "getCategories" /\ last.status = 200 /\ last.token.role = SUPER_ADMIN)
    => last.data = RowsOfSuppliedFilters(categories, last.body)

-----------------------------------------------------------------------------
(* Positions *)

\* no two rows of one position group have the same position
DistinctPositions(tbl) ==
    \A x, y \in DOMAIN tbl :
        (x # y /\ tbl[x].country_id = tbl[y].country_id /\ tbl[x].city_id = tbl[y].city_id)
        => tbl[x].position # tbl[y].position

\* C23: when two reposition requests for rows of the same position group
\* execute concurrently, the resulting positions of the group equal those of
\* executing the two requests one after the other in some order; in
\* particular, once both have finished, no two rows of the group have the
\* same position.
C23_ConcurrentRepositionSerial ==
    (\A p \in Procs : pending[p] = Idle) => DistinctPositions(categories)

\* the position a reposition request asks for
RequestedPosition(req) == req.body.position[1]

\* no two payment options of one country have the same position
DistinctOptionPositions(tbl) ==
    \A x, y \in DOMAIN tbl :
        (x # y /\ tbl[x].country_id = tbl[y].country_id) => tbl[x].position # tbl[y].position

\* C22: every reposition operation on a category, a banner or a payment
\* option is carried out by one call to a store-side procedure that shifts the
\* other rows of the position group and places the target; the application
\* never writes a position field of an existing row directly. A group whose
\* positions were distinct still has distinct positions after the request.
C22_RepositionByProcedure ==
    [][/\ (last'.op = "updateCategoryPosition" /\ last'.status = 200)
          => categories' = update_category_position(
                               categories, last'.id, RequestedPosition(last'),
                               categories[last'.id].country_id,
                               categories[last'.id].city_id)
       /\ (last'.op = "updatePaymentOptionPosition" /\ last'.status = 200
           /\ DistinctOptionPositions(payment_options))
          => DistinctOptionPositions(payment_options')]_vars

-----------------------------------------------------------------------------
(* Default payment option *)

\* C26: in every state reachable through createPaymentOption and
\* updatePaymentOption requests, including requests whose store calls
\* interleave, at most one payment option per (country_id, type) pair has
\* is_default = true.
C26_OneDefaultPerCountryAndType ==
    \A x, y \in DOMAIN payment_options :
        (/\ x # y
         /\ payment_options[x].country_id = payment_options[y].country_id
         /\ payment_options[x].type = payment_options[y].type)
        => ~(payment_options[x].is_default /\ payment_options[y].is_default)

-----------------------------------------------------------------------------
(* Unexpected failures *)

\* C24: whenever a backing-store operation or any other unexpected failure
\* occurs while handling a request, the response is a generic status-500
\* error whose message contains none of the raw error text.
C24_FailureIsGeneric500 ==
    last.op = "createOrderFailing"
    => (last.status = 500 /\ last.message # RawErrorText)

-----------------------------------------------------------------------------
(* Closing a resolved ticket *)

\* the request is an updateTicket of an admin who may act on the ticket, the
\* ticket is resolved and the payload sets status closed
ClosesResolvedTicket(req) ==
    /\ req.op = "updateTicket"
    /\ Has(support_tickets, req.id)
    /\ support_tickets[req.id].status = "resolved"
    /\ req.body.status = "closed"
    /\ AuthRoute(req.token).status = 0
    /\ LocationAccess(AuthRoute(req.token).admin, support_tickets[req.id]) = 0

\* C27: for a ticket whose status is resolved, an authorized updateTicket
\* request whose payload sets status closed succeeds and leaves the ticket
\* with status closed and closed_at set.
C27_ResolvedTicketCloses ==
    [][ClosesResolvedTicket(last')
       => /\ last'.status = 200
          /\ support_tickets'[last'.id].status = "closed"
          /\ Len(support_tickets'[last'.id].closed_at) = 1]_vars

-----------------------------------------------------------------------------
(* Pages of messages *)

\* the ids of the messages of a page
MessageIds(page) == {page[k].id : k \in 1..Len(page)}

\* C29: for fixed filters and limit in getMessages, the pages 1 through
\* totalPages are pairwise disjoint and their union is exactly the set of all
\* messages matching the filters.
C29_MessagePagesPartition ==
    \A token \in tokens, limit \in {<<>>, <<2>>}, sender_type \in {UNDEF, "user"},
       first \in {<<>>, <<1>>} :
        LET Page(p) ==
                getMessagesHandler(AuthRoute(token).admin,
                                   [ticket_id |-> "t1", sender_type |-> sender_type,
                                    page |-> IF p = 1 THEN first ELSE <<p>>,
                                    limit |-> limit])
            matching == getMessagesRows([ticket_id |-> "t1",
                                         sender_type |-> sender_type])
        IN  Page(1).status = 200
            => LET pages == 1..Page(1).data.totalPages
               IN  /\ \A p \in pages : Page(p).status = 200
                   /\ \A p, q \in pages :
                        p # q => MessageIds(Page(p).data.messages)
                                   \cap MessageIds(Page(q).data.messages) = {}
                   /\ UNION {MessageIds(Page(p).data.messages) : p \in pages}
                        = MessageIds(matching)

-----------------------------------------------------------------------------
(* Positions of appended photos *)

-----------------------------------------------------------------------------
(* Zone names of a city *)

\* C25: zone names are unique within a city: after any sequence of
\* createCity, addZone, updateZone and deleteZone, no two zones of one city
\* share a name.
C25_ZoneNamesUnique ==
    \A y \in DOMAIN cities :
        \A i, j \in 1..Len(cities[y].zones) :
            i # j => cities[y].zones[i].name # cities[y].zones[j].name

====
